---------------------------- MODULE Spec2Model ----------------------------
(***************************************************************************)
(* Model of the deep-slack research bot: the due-schedule evaluation, the  *)
(* job executor, the outbox, the delivery worker and the setup             *)
(* conversation.                                                           *)
(*                                                                         *)
(* Sources: src/deep_slack/main.py (the deployed cloud function),          *)
(* src/firebase_client.py (its earlier variant), src/slack.py (the         *)
(* delivery worker and the setup conversation), src/test_firebase.py       *)
(* (forced execution).                                                     *)
(*                                                                         *)
(* Time is a count of ticks since the epoch, in UTC.  The calendar is      *)
(* scaled down: a day has TicksPerDay ticks ("hours") and a week has       *)
(* DaysPerWeek days; a recurrence expression keeps the two fields of the   *)
(* five-field cron form that the bot generates with other values than "*", *)
(* the hour and the day of the week.  A timezone is a fixed offset in      *)
(* ticks (no daylight saving).                                             *)
(***************************************************************************)
EXTENDS Integers, Sequences, FiniteSets, TLC

VARIABLES
    now,        \* the wall clock (UTC instant), read by datetime.now
    schedules,  \* Firestore collection "schedules": id -> document
    outbox,     \* Firestore collection "outbox": id -> document
    disp,       \* process_due_schedules: position, listed snapshots, count
    job,        \* execute_research_job, per executor: position and locals
    worker,     \* deliver_outbox_messages: position, fetched list, index
    slackLog,   \* the messaging surface: ids of the messages posted, in order
    origin,     \* history: outbox id -> the schedule whose job appended it
    postFailed, \* history: ids of the messages a post of which has failed
    probe,      \* inputs and results of a stand-alone due evaluation
    hist,       \* history of the dispatcher's cycles and executions
    user_sessions  \* slack.py user_sessions: user id -> SetupSession

vars == <<now, schedules, outbox, disp, job, worker, slackLog, origin,
          postFailed, probe, hist, user_sessions>>

(***************************************************************************)
(* Bounds of the model.                                                    *)
(***************************************************************************)
TicksPerDay  == 2   \* ticks ("hours") in a day of the scaled calendar
DaysPerWeek  == 2   \* days in a week of the scaled calendar
Horizon      == 3   \* the clock runs from StartTime to StartTime + Horizon
MaxSchedules == 2   \* schedule documents that can be created
MaxOutbox    == 2   \* outbox documents that can be created
MaxPosts     == 2   \* successful posts recorded on the messaging surface

TicksPerWeek == TicksPerDay * DaysPerWeek
StartTime    == 2 * TicksPerWeek
MaxTime      == StartTime + Horizon
Times        == StartTime..MaxTime

(***************************************************************************)
(* Optional values: None is the empty sequence, Some(x) a one-element one. *)
(***************************************************************************)
None    == <<>>
Some(x) == <<x>>
Val(o)  == o[1]

Min(S) == CHOOSE x \in S : \A y \in S : x <= y

(***************************************************************************)
(* Text is a sequence of one-character strings.                            *)
(***************************************************************************)
Whitespace == {" ", "\t", "\n"}

RECURSIVE LStrip(_)
LStrip(s) == IF s # <<>> /\ Head(s) \in Whitespace THEN LStrip(Tail(s)) ELSE s

RECURSIVE RStrip(_)
RStrip(s) ==
    IF s # <<>> /\ s[Len(s)] \in Whitespace
    THEN RStrip(SubSeq(s, 1, Len(s) - 1)) ELSE s

\* str.strip()
Strip(s) == RStrip(LStrip(s))

UpperCase ==
    <<"A","B","C","D","E","F","G","H","I","J","K","L","M",
      "N","O","P","Q","R","S","T","U","V","W","X","Y","Z">>
LowerCase ==
    <<"a","b","c","d","e","f","g","h","i","j","k","l","m",
      "n","o","p","q","r","s","t","u","v","w","x","y","z">>

\* upper-case letter -> its lower-case letter
LowerTable ==
    [ c \in { UpperCase[i] : i \in DOMAIN UpperCase } |->
        LowerCase[CHOOSE i \in DOMAIN UpperCase : UpperCase[i] = c] ]

LowerOf(c) == IF c \in DOMAIN LowerTable THEN LowerTable[c] ELSE c

\* str.lower()
Lower(s) == [i \in 1..Len(s) |-> LowerOf(s[i])]

\* the Python test "k in s" on strings
Contains(s, k) ==
    \E i \in 1..(Len(s) - Len(k) + 1) : SubSeq(s, i, i + Len(k) - 1) = k

\* str.replace(pat, rep): left to right, non-overlapping
RECURSIVE Replace(_, _, _)
Replace(s, pat, rep) ==
    IF Len(s) < Len(pat) THEN s
    ELSE IF SubSeq(s, 1, Len(pat)) = pat
         THEN rep \o Replace(SubSeq(s, Len(pat) + 1, Len(s)), pat, rep)
         ELSE <<Head(s)>> \o Replace(Tail(s), pat, rep)

(***************************************************************************)
(* OpenAIResearchClient                                                    *)
(***************************************************************************)
MinPromptLen == 10

forbidden_keywords ==
    { <<"h","a","c","k">>,
      <<"i","l","l","e","g","a","l">>,
      <<"h","a","r","m","f","u","l">> }

\* variant: the disallowed terms are looked for in the prompt as typed
validate_prompt_case_sensitive(prompt) ==
    IF prompt = <<>> \/ Len(Strip(prompt)) < MinPromptLen THEN FALSE
    ELSE IF \E keyword \in forbidden_keywords : Contains(prompt, keyword)
         THEN FALSE
         ELSE TRUE

validate_prompt(prompt) ==
    IF prompt = <<>> \/ Len(Strip(prompt)) < MinPromptLen THEN FALSE
    ELSE IF \E keyword \in forbidden_keywords : Contains(Lower(prompt), keyword)
         THEN FALSE
         ELSE TRUE

ResultsBanner == "[Deep Research Results]\n\n"

format_for_slack(content) ==
    LET h3 == Replace(content, <<"#","#","#"," ">>, <<"*">>)
        h2 == Replace(h3, <<"#","#"," ">>, <<"*">>)
        h1 == Replace(h2, <<"#"," ">>, <<"*">>)
        formatted == Replace(h1, <<"*","*">>, <<"*">>)
    IN  <<ResultsBanner>> \o formatted

\* tenacity: stop_after_attempt(3), retry on every Exception
MaxAttempts == 3

\* variant: no retry, the first attempt decides
deep_research_no_retry(outcomes, text) ==
    IF outcomes[1] = "ok"
    THEN [status |-> "ok", attempts |-> 1, text |-> text]
    ELSE [status |-> "raise", attempts |-> 1, text |-> <<>>]

\* outcomes[i] is what attempt i against the research API would do
deep_research(outcomes, text) ==
    LET ok == {i \in 1..MaxAttempts : outcomes[i] = "ok"}
    IN  IF ok = {}
        THEN [status |-> "raise", attempts |-> MaxAttempts, text |-> <<>>]
        ELSE [status |-> "ok", attempts |-> Min(ok), text |-> text]

AttemptOutcomes == [1..MaxAttempts -> {"ok", "fail"}]


(***************************************************************************)
(* Recurrence expressions (croniter) and timezones (pytz)                  *)
(***************************************************************************)
Star        == [star |-> TRUE, vals |-> {}]
Field(vals) == [star |-> FALSE, vals |-> vals]

FieldOk(f, range)  == f.star \/ (f.vals # {} /\ f.vals \subseteq range)
FieldMatch(f, v)   == f.star \/ v \in f.vals

\* croniter(expr) raises CroniterBadCronError on a field out of its range
CronOk(cron) ==
    /\ FieldOk(cron.hour, 0..(TicksPerDay - 1))
    /\ FieldOk(cron.dow, 0..(DaysPerWeek - 1))

KnownTimezones == {"UTC", "Etc/GMT-1"}

\* pytz.timezone(name): the zone's offset from UTC, in ticks
UtcOffset(tz) == IF tz = "Etc/GMT-1" THEN 1 ELSE 0

\* whether instant t, seen in zone tz, is an occurrence of cron
Occurs(cron, tz, t) ==
    LET local == t + UtcOffset(tz)
    IN  /\ FieldMatch(cron.hour, local % TicksPerDay)
        /\ FieldMatch(cron.dow, (local \div TicksPerDay) % DaysPerWeek)

\* variant: the next occurrence after t instead of the previous one
get_prev_as_next(cron, tz, t) ==
    t + Min({k \in 1..TicksPerWeek : Occurs(cron, tz, t + k)})

\* variant: the latest occurrence at or before t
get_prev_at_or_before(cron, tz, t) ==
    t - Min({k \in 0..TicksPerWeek : Occurs(cron, tz, t - k)})

\* croniter(cron, t).get_prev(): the latest occurrence strictly before t
\* (croniter steps back from t before it searches, so t itself is never
\* returned, even when t is an occurrence)
get_prev(cron, tz, t) ==
    t - Min({k \in 1..TicksPerWeek : Occurs(cron, tz, t - k)})

\* variant: every expression is accepted at creation
validate_cron_schedule_lenient(cron_schedule) == TRUE

\* FirebaseClient.validate_cron_schedule
validate_cron_schedule(cron_schedule) == CronOk(cron_schedule)

\* whether the evaluation raises (unknown timezone, unparsable expression)
DueRaises(schedule) ==
    \/ schedule.timezone \notin KnownTimezones
    \/ ~CronOk(schedule.cron_schedule)

\* variant: a run at the occurrence itself does not count as done
is_schedule_due_inclusive(schedule, t) ==
    IF DueRaises(schedule) THEN FALSE
    ELSE LET last_run  == schedule.last_run
             prev_time == get_prev(schedule.cron_schedule, schedule.timezone, t)
         IN  t >= prev_time /\ (last_run = None \/ Val(last_run) <= prev_time)

\* variant: last_run is not consulted
is_schedule_due_whenever_past(schedule, t) ==
    IF DueRaises(schedule) THEN FALSE
    ELSE LET prev_time == get_prev(schedule.cron_schedule, schedule.timezone, t)
         IN  IF t >= prev_time THEN TRUE ELSE FALSE

\* variant: a next-occurrence design, due only at the instant of an occurrence
is_schedule_due_at_occurrence(schedule, t) ==
    IF DueRaises(schedule) THEN FALSE
    ELSE LET last_run == schedule.last_run
         IN  IF Occurs(schedule.cron_schedule, schedule.timezone, t)
             THEN IF last_run = None \/ Val(last_run) < t THEN TRUE ELSE FALSE
             ELSE FALSE

\* variant: a window design, due only right after the occurrence
is_schedule_due_in_window(schedule, t) ==
    IF DueRaises(schedule) THEN FALSE
    ELSE LET last_run  == schedule.last_run
             prev_time == get_prev(schedule.cron_schedule, schedule.timezone, t)
         IN  IF t >= prev_time /\ t - prev_time <= 1
             THEN IF last_run = None \/ Val(last_run) < prev_time
                  THEN TRUE ELSE FALSE
             ELSE FALSE

\* variant: the rule keeps hidden state, and answers due only the first time
\* it is asked
is_schedule_due_once(schedule, t) ==
    /\ ~probe.evaluated
    /\ ~DueRaises(schedule)
    /\ \/ schedule.last_run = None
       \/ Val(schedule.last_run) < get_prev(schedule.cron_schedule, schedule.timezone, t)

\* FirebaseClient.is_schedule_due of deep_slack/main.py, at instant t
is_schedule_due(schedule, t) ==
    IF DueRaises(schedule) THEN FALSE
    ELSE LET last_run  == schedule.last_run
             prev_time == get_prev(schedule.cron_schedule, schedule.timezone, t)
         IN  IF t >= prev_time
             THEN IF last_run = None \/ Val(last_run) < prev_time
                  THEN TRUE ELSE FALSE
             ELSE FALSE

\* variant: the never-run test comes first, before the timezone and the
\* expression are looked at
is_schedule_due_firebase_client_never_run_first(schedule, t) ==
    IF schedule.last_run = None THEN TRUE
    ELSE IF DueRaises(schedule) THEN FALSE
    ELSE Val(schedule.last_run) <
            get_prev(schedule.cron_schedule, schedule.timezone, t)

\* FirebaseClient.is_schedule_due of firebase_client.py, at instant t
is_schedule_due_firebase_client(schedule, t) ==
    IF DueRaises(schedule) THEN FALSE
    ELSE LET last_run  == schedule.last_run
             prev_time == get_prev(schedule.cron_schedule, schedule.timezone, t)
         IN  IF last_run = None THEN TRUE
             ELSE Val(last_run) < prev_time

(***************************************************************************)
(* Inputs                                                                  *)
(***************************************************************************)
CronWeekly == [hour |-> Field({1}), dow |-> Field({1})]   \* like "0 9 * * 1"
CronDaily  == [hour |-> Field({1}), dow |-> Star]         \* like "0 9 * * *"
CronBad    == [hour |-> Field({TicksPerDay}), dow |-> Star] \* like "0 24 * * *"

CronInputs     == {CronWeekly, CronDaily, CronBad}
TimezoneInputs == {"UTC", "Etc/GMT-1"}

PromptGood == <<"A","I"," ","h","i","s","t","o","r","y">>
PromptAb   == <<"a","b">>
Prompts    == {PromptGood, PromptAb}

Workspaces == {"T1"}
Users      == {"U1"}
Channels   == {"C1"}

ResearchTexts == { <<"#"," ","H","i">> }

SchedIds  == 1..MaxSchedules
MsgIds    == 1..MaxOutbox
Executors == {"dispatcher", "force"}

(***************************************************************************)
(* The store: documents and queries                                        *)
(***************************************************************************)
\* variant: a new schedule counts as run at the time of its creation
NewScheduleDoc_stamped(workspace_id, user_id, channel_id, prompt, cron_schedule, timezone_str) ==
    [ workspace_id  |-> workspace_id,
      user_id       |-> user_id,
      channel_id    |-> channel_id,
      prompt        |-> prompt,
      cron_schedule |-> cron_schedule,
      timezone      |-> timezone_str,
      last_run      |-> Some(now),
      active        |-> TRUE ]

\* the document save_schedule creates
NewScheduleDoc(workspace_id, user_id, channel_id, prompt, cron_schedule, timezone_str) ==
    [ workspace_id  |-> workspace_id,
      user_id       |-> user_id,
      channel_id    |-> channel_id,
      prompt        |-> prompt,
      cron_schedule |-> cron_schedule,
      timezone      |-> timezone_str,
      last_run      |-> None,
      active        |-> TRUE ]

\* the document add_to_outbox creates; created_at is the server's timestamp
NewOutboxDoc(workspace_id, channel_id, message, t) ==
    [ workspace_id |-> workspace_id,
      channel_id   |-> channel_id,
      message      |-> message,
      created_at   |-> t,
      delivered    |-> FALSE ]

\* a set of ids as the sequence in increasing id (document name) order
RECURSIVE ById(_)
ById(ids) ==
    IF ids = {} THEN <<>>
    ELSE LET m == Min(ids) IN <<m>> \o ById(ids \ {m})

\* order_by("created_at"): by creation time, then by document name
CreatedBefore(a, b) ==
    \/ outbox[a].created_at < outbox[b].created_at
    \/ outbox[a].created_at = outbox[b].created_at /\ a <= b

RECURSIVE OrderByCreatedAt(_)
OrderByCreatedAt(ids) ==
    IF ids = {} THEN <<>>
    ELSE LET m == CHOOSE x \in ids : \A y \in ids : CreatedBefore(x, y)
         IN  <<m>> \o OrderByCreatedAt(ids \ {m})

\* what the dispatcher keeps of a listed document: the fields that can have
\* changed in the store by the time the loop reaches it
Snapshot(id) == [id |-> id, last_run |-> schedules[id].last_run]

\* the listed document as the loop sees it
Listed(snap) == [schedules[snap.id] EXCEPT !.last_run = snap.last_run]

\* variant: a failed query falls back on the documents as they are
get_active_schedules_despite_failure(ok) ==
    LET ids == {id \in DOMAIN schedules : schedules[id].active}
    IN  [i \in 1..Len(ById(ids)) |-> Snapshot(ById(ids)[i])]

\* variant: the query without the filter on the active flag
get_active_schedules_unfiltered(ok) ==
    IF ok
    THEN LET ids == ById(DOMAIN schedules)
         IN  [i \in 1..Len(ids) |-> Snapshot(ids[i])]
    ELSE <<>>

\* FirebaseClient.get_active_schedules; ok is whether the query succeeds
get_active_schedules(ok) ==
    IF ok
    THEN LET ids == ById({id \in DOMAIN schedules : schedules[id].active = TRUE})
         IN  [i \in 1..Len(ids) |-> Snapshot(ids[i])]
    ELSE <<>>

\* FirebaseClient.get_user_schedules (ids of the documents returned)
get_user_schedules(workspace_id, user_id, ok) ==
    IF ok
    THEN ById({id \in DOMAIN schedules :
                 /\ schedules[id].workspace_id = workspace_id
                 /\ schedules[id].user_id = user_id
                 /\ schedules[id].active = TRUE})
    ELSE <<>>

\* variant: the filter is inverted and the query returns the delivered messages
get_undelivered_messages_delivered(ok) ==
    IF ok
    THEN OrderByCreatedAt({id \in DOMAIN outbox : outbox[id].delivered = TRUE})
    ELSE <<>>

\* variant: the query without order_by returns the documents by name
get_undelivered_messages_by_name(ok) ==
    IF ok
    THEN ById({id \in DOMAIN outbox : outbox[id].delivered = FALSE})
    ELSE <<>>

\* FirebaseClient.get_undelivered_messages (ids of the documents returned)
get_undelivered_messages(ok) ==
    IF ok
    THEN OrderByCreatedAt({id \in DOMAIN outbox : outbox[id].delivered = FALSE})
    ELSE <<>>

(***************************************************************************)
(* Initial state                                                           *)
(***************************************************************************)
\* no execution in progress
IdleJob ==
    [ pc |-> "idle", sid |-> None, msg |-> <<>>, ts |-> None, appended |-> FALSE ]

NoProbe == [evaluated |-> FALSE]

(***************************************************************************)
(* History of the dispatcher: what its cycles and executions did, kept for *)
(* the properties.  No operation of the program reads it.                  *)
(*   skipped  the schedules that were inactive when the current cycle started *)
(*   handed   the schedules the current cycle handed to execute_research_job *)
(*   owed     schedule id -> how its latest dispatcher execution ended, for  *)
(*            the schedules whose execution ended without a last_run write   *)
(*            landing and whose last_run has not been written since          *)
(*   wfail    whether a store write of a dispatcher execution has failed     *)
(*   occ      the occurrence the execution in progress was found due for     *)
(*   research the deep_research call that execution has just returned from   *)
(*   msgOcc   outbox id -> the occurrence its execution was found due for    *)
(***************************************************************************)
NoHistory ==
    [ skipped |-> {}, handed |-> 0, owed |-> <<>>, wfail |-> FALSE, occ |-> None,
      research |-> None, msgOcc |-> <<>> ]

Owe(f, k, v) == [x \in DOMAIN f \cup {k} |-> IF x = k THEN v ELSE f[x]]
Drop(f, k)   == [x \in DOMAIN f \ {k} |-> f[x]]

\* a cycle starts
HistListed(h) ==
    [h EXCEPT !.handed = 0,
              !.skipped = {id \in DOMAIN schedules : ~schedules[id].active}]

\* the loop hands a schedule found due for occurrence p to
\* execute_research_job, which returns at once or goes on to the engine call
HistHandOff(h, p, returned) ==
    [h EXCEPT !.handed = @ + 1, !.occ = IF returned THEN None ELSE Some(p)]

\* deep_research returned r to executor e; outcomes is what each attempt
\* against the research API would do
HistResearch(e, h, outcomes, r) ==
    IF e = "dispatcher"
    THEN [h EXCEPT !.research = Some([ outcomes |-> outcomes, status |-> r.status,
                                       attempts |-> r.attempts ])]
    ELSE h

\* executor e's execution of schedule sid ended in the except clause
HistRaise(e, h, sid) ==
    IF e = "dispatcher"
    THEN [h EXCEPT !.owed = Owe(@, sid, "engine"), !.occ = None, !.research = None]
    ELSE h

\* executor e's add_to_outbox returned; ok is whether document id was stored
HistEnqueue(e, h, id, ok) ==
    IF e = "dispatcher"
    THEN [h EXCEPT !.wfail = @ \/ ~ok, !.research = None,
                   !.msgOcc = IF ok THEN @ @@ (id :> Val(h.occ)) ELSE @]
    ELSE h

\* executor e's update_last_run for schedule sid returned and the execution
\* with it; ok is whether the write landed
HistCommit(e, h, sid, appended, ok) ==
    IF e = "dispatcher"
    THEN [h EXCEPT !.wfail = @ \/ ~ok,
                   !.owed = IF ok THEN Drop(@, sid)
                            ELSE Owe(@, sid, IF appended THEN "commit" ELSE "enqueue"),
                   !.occ = None, !.research = None]
    ELSE [h EXCEPT !.owed = IF ok THEN Drop(@, sid) ELSE @]

Init ==
    /\ now = StartTime
    /\ schedules = <<>>
    /\ outbox = <<>>
    /\ disp = [pc |-> "idle", list |-> <<>>, count |-> 0]
    /\ job = [e \in Executors |-> IdleJob]
    /\ worker = [pc |-> "idle", fetched |-> <<>>, i |-> 1]
    /\ slackLog = <<>>
    /\ origin = <<>>
    /\ postFailed = {}
    /\ probe = NoProbe
    /\ hist = NoHistory
    /\ user_sessions = <<>>

(***************************************************************************)
(* The clock and the user's operations                                     *)
(***************************************************************************)
Tick ==
    /\ now < MaxTime
    /\ now' = now + 1
    /\ UNCHANGED <<schedules, outbox, disp, job, worker, slackLog, origin,
                   postFailed, probe, hist, user_sessions>>

\* FirebaseClient.save_schedule: an unparsable expression or a failed write
\* raises and stores nothing.  The arguments are the sets the call's inputs
\* and the new document's id are drawn from.
SaveSchedule(ids, prompts, crons, timezones) ==
    \E workspace_id \in Workspaces, user_id \in Users, channel_id \in Channels,
       prompt \in prompts, cron_schedule \in crons, timezone_str \in timezones,
       id \in ids \ DOMAIN schedules, ok \in BOOLEAN :
        /\ schedules' =
              IF validate_cron_schedule(cron_schedule) /\ ok
              THEN schedules @@ (id :> NewScheduleDoc(workspace_id, user_id,
                                   channel_id, prompt, cron_schedule, timezone_str))
              ELSE schedules
        /\ UNCHANGED <<now, outbox, disp, job, worker, slackLog, origin,
                       postFailed, probe, hist, user_sessions>>

\* a user lists their schedules (get_user_schedules); the result is kept in
\* probe
GetUserSchedules ==
    /\ \E workspace_id \in Workspaces, user_id \in Users, ok \in BOOLEAN :
         probe' = [ evaluated |-> FALSE,
                    listing   |-> get_user_schedules(workspace_id, user_id, ok) ]
    /\ UNCHANGED <<now, schedules, outbox, disp, job, worker, slackLog, origin,
                   postFailed, hist, user_sessions>>

\* variant: deactivating a schedule also clears its last_run
DeactivateSchedule_reset ==
    \E schedule_id \in DOMAIN schedules, ok \in BOOLEAN :
        /\ schedules' =
              IF ok THEN [schedules EXCEPT ![schedule_id].active = FALSE,
                                           ![schedule_id].last_run = None]
              ELSE schedules
        /\ UNCHANGED <<now, outbox, disp, job, worker, slackLog, origin,
                       postFailed, probe, hist, user_sessions>>

\* FirebaseClient.deactivate_schedule: a failed write is logged and swallowed
DeactivateSchedule ==
    \E schedule_id \in DOMAIN schedules, ok \in BOOLEAN :
        /\ schedules' =
              IF ok THEN [schedules EXCEPT ![schedule_id].active = FALSE]
              ELSE schedules
        /\ UNCHANGED <<now, outbox, disp, job, worker, slackLog, origin,
                       postFailed, probe, hist, user_sessions>>

(***************************************************************************)
(* FirebaseClient.execute_research_job, run by executor e: the dispatcher  *)
(* loop or a forced execution.  Its steps are the points where it touches  *)
(* the store or the research API.  The locals of an execution (sid, msg,   *)
(* ts, and appended: whether its add_to_outbox stored a document) are      *)
(* dropped when it returns.                                                *)
(***************************************************************************)
\* variant: the result of the validation is ignored
StartJob_unchecked(schedule_id) ==
    [IdleJob EXCEPT !.pc = "research", !.sid = Some(schedule_id)]

\* entry and prompt validation: an invalid prompt returns at once
StartJob(schedule_id) ==
    IF validate_prompt(schedules[schedule_id].prompt)
    THEN [IdleJob EXCEPT !.pc = "research", !.sid = Some(schedule_id)]
    ELSE IdleJob

\* after deep_research returned r: a raise enters the except clause,
\* otherwise the text is formatted for the enqueue
AfterResearch(j, r) ==
    IF r.status = "raise"
    THEN [j EXCEPT !.pc = "except"]
    ELSE [j EXCEPT !.pc = "enqueue", !.msg = format_for_slack(r.text)]

\* variant: the error is logged and the job carries on with the enqueue
OnRaise_carry_on(j) == [j EXCEPT !.pc = "enqueue"]

\* the except clause of execute_research_job: log and return
OnRaise(j) == IdleJob

\* variant: the time written to last_run is the occurrence the schedule was
\* found due for
AfterEnqueue_at_occurrence(j, ok, t) ==
    [j EXCEPT !.pc = "commit", !.appended = ok,
              !.ts = IF hist.occ = None THEN Some(t) ELSE hist.occ]

\* variant: the time written to last_run is one week behind the clock
AfterEnqueue_week_behind(j, ok, t) ==
    [j EXCEPT !.pc = "commit", !.appended = ok, !.ts = Some(t - TicksPerWeek)]

\* after add_to_outbox returned (it swallows a failed write): the clock is
\* read for the last_run write that follows
AfterEnqueue(j, ok, t) ==
    [j EXCEPT !.pc = "commit", !.appended = ok, !.ts = Some(t)]

\* variant: only the executions that got to the last_run write are counted
Returned_success_only(e) ==
    IF e = "dispatcher" /\ job[e].pc = "commit"
    THEN [disp EXCEPT !.count = @ + 1]
    ELSE disp

\* variant: the batch is abandoned when an execution returns
Returned_abort(e) ==
    IF e = "dispatcher" THEN [disp EXCEPT !.pc = "idle", !.list = <<>>] ELSE disp

\* the dispatcher counts a schedule when its execute_research_job returned
Returned(e) ==
    IF e = "dispatcher" THEN [disp EXCEPT !.count = @ + 1] ELSE disp

JobResearch(e) ==
    /\ job[e].pc = "research"
    /\ \E outcomes \in AttemptOutcomes, text \in ResearchTexts :
         LET r == deep_research(outcomes, text)
         IN  /\ job' = [job EXCEPT ![e] = AfterResearch(job[e], r)]
             /\ hist' = HistResearch(e, hist, outcomes, r)
    /\ UNCHANGED <<now, schedules, outbox, disp, worker, slackLog, origin,
                   postFailed, probe, user_sessions>>

JobExcept(e) ==
    /\ job[e].pc = "except"
    /\ job' = [job EXCEPT ![e] = OnRaise(job[e])]
    /\ disp' = IF job'[e].pc = "idle" THEN Returned(e) ELSE disp
    /\ hist' = IF job'[e].pc = "idle" THEN HistRaise(e, hist, Val(job[e].sid))
               ELSE hist
    /\ UNCHANGED <<now, schedules, outbox, worker, slackLog, origin,
                   postFailed, probe, user_sessions>>

\* the ids the store can give a new outbox document: any unused one
FreeMsgIds == MsgIds \ DOMAIN outbox

\* the same, for runs in which the order of the document names plays no part
FirstFreeMsgId == IF FreeMsgIds = {} THEN {} ELSE {Min(FreeMsgIds)}

\* FirebaseClient.add_to_outbox, then datetime.now(timezone.utc); the new
\* document's id is drawn from newIds
JobEnqueue(e, newIds) ==
    /\ job[e].pc = "enqueue"
    /\ \E id \in newIds, ok \in BOOLEAN :
         LET s == schedules[Val(job[e].sid)]
         IN  /\ outbox' =
                   IF ok
                   THEN outbox @@ (id :> NewOutboxDoc(s.workspace_id,
                                           s.channel_id, job[e].msg, now))
                   ELSE outbox
             /\ origin' = IF ok THEN origin @@ (id :> Val(job[e].sid)) ELSE origin
             /\ job' = [job EXCEPT ![e] = AfterEnqueue(job[e], ok, now)]
             /\ hist' = HistEnqueue(e, hist, id, ok)
    /\ UNCHANGED <<now, schedules, disp, worker, slackLog, postFailed, probe,
                   user_sessions>>

\* variant: the job writes back the whole document as the dispatcher listed
\* it (an active schedule), with the new last_run
update_last_run_whole_document(schedule_id, timestamp, ok) ==
    IF ok THEN [schedules EXCEPT ![schedule_id] =
                   [@ EXCEPT !.last_run = timestamp, !.active = TRUE]]
    ELSE schedules

\* variant: the write replaces last_run in every schedule document
update_last_run_all(schedule_id, timestamp, ok) ==
    IF ok THEN [id \in DOMAIN schedules |->
                   [schedules[id] EXCEPT !.last_run = timestamp]]
    ELSE schedules

\* variant: the write lands although the call reported a failure
update_last_run_lands(schedule_id, timestamp, ok) ==
    [schedules EXCEPT ![schedule_id].last_run = timestamp]

\* FirebaseClient.update_last_run: a failed write is logged and swallowed
update_last_run(schedule_id, timestamp, ok) ==
    IF ok THEN [schedules EXCEPT ![schedule_id].last_run = timestamp]
    ELSE schedules

JobCommit(e) ==
    /\ job[e].pc = "commit"
    /\ \E ok \in BOOLEAN :
         /\ schedules' = update_last_run(Val(job[e].sid), job[e].ts, ok)
         /\ hist' = HistCommit(e, hist, Val(job[e].sid), job[e].appended, ok)
    /\ job' = [job EXCEPT ![e] = IdleJob]
    /\ disp' = Returned(e)
    /\ UNCHANGED <<now, outbox, worker, slackLog, origin, postFailed, probe,
                   user_sessions>>

JobStep(e, newIds) ==
    JobResearch(e) \/ JobExcept(e) \/ JobEnqueue(e, newIds) \/ JobCommit(e)

(***************************************************************************)
(* FirebaseClient.process_due_schedules (one cycle of the dispatcher)      *)
(***************************************************************************)
DispatchList ==
    /\ disp.pc = "idle"
    /\ \E ok \in BOOLEAN :
         disp' = [pc |-> "loop", list |-> get_active_schedules(ok), count |-> 0]
    /\ hist' = HistListed(hist)
    /\ UNCHANGED <<now, schedules, outbox, job, worker, slackLog, origin,
                   postFailed, probe, user_sessions>>

\* one turn of the loop, or the return when the list is exhausted
DispatchNext ==
    /\ disp.pc = "loop"
    /\ job["dispatcher"].pc = "idle"
    /\ IF disp.list = <<>>
       THEN /\ disp' = [disp EXCEPT !.pc = "idle"]
            /\ job' = job
            /\ hist' = hist
       ELSE LET schedule == Head(disp.list)
                rest     == [disp EXCEPT !.list = Tail(disp.list)]
            IN  IF is_schedule_due(Listed(schedule), now)
                THEN LET j == StartJob(schedule.id)
                         p == get_prev(Listed(schedule).cron_schedule,
                                       Listed(schedule).timezone, now)
                     IN  /\ job' = [job EXCEPT !["dispatcher"] = j]
                         /\ disp' = IF j.pc = "idle"
                                    THEN [rest EXCEPT !.count = @ + 1]
                                    ELSE rest
                         /\ hist' = HistHandOff(hist, p, j.pc = "idle")
                ELSE /\ disp' = rest
                     /\ job' = job
                     /\ hist' = hist
    /\ UNCHANGED <<now, schedules, outbox, worker, slackLog, origin,
                   postFailed, probe, user_sessions>>

(***************************************************************************)
(* force_execute_schedule (test_firebase.py)                               *)
(***************************************************************************)
\* variant: only an active schedule is found
get_schedule_by_id_active_only(schedule_id, ok) ==
    IF ok /\ schedule_id \in DOMAIN schedules /\ schedules[schedule_id].active
    THEN Some(schedule_id) ELSE None

\* FirebaseClient.get_schedule_by_id: None when absent or when the read fails
get_schedule_by_id(schedule_id, ok) ==
    IF ok /\ schedule_id \in DOMAIN schedules THEN Some(schedule_id) ELSE None

ForceExecute ==
    /\ job["force"].pc = "idle"
    /\ \E schedule_id \in SchedIds, ok \in BOOLEAN :
         LET schedule == get_schedule_by_id(schedule_id, ok)
         IN  job' = IF schedule # None
                    THEN [job EXCEPT !["force"] = StartJob(Val(schedule))]
                    ELSE job
    /\ UNCHANGED <<now, schedules, outbox, disp, worker, slackLog, origin,
                   postFailed, probe, hist, user_sessions>>

(***************************************************************************)
(* deliver_outbox_messages (one cycle of the delivery worker)              *)
(***************************************************************************)
DeliverFetch ==
    /\ worker.pc = "idle"
    /\ \E ok \in BOOLEAN :
         worker' = [pc |-> "loop", fetched |-> get_undelivered_messages(ok), i |-> 1]
    /\ UNCHANGED <<now, schedules, outbox, disp, job, slackLog, origin,
                   postFailed, probe, hist, user_sessions>>

\* variant: the write also stamps the message with the time of delivery
mark_message_delivered_restamped(message_id, ok) ==
    IF ok THEN [outbox EXCEPT ![message_id].delivered = TRUE,
                              ![message_id].created_at = now]
    ELSE outbox

\* FirebaseClient.mark_message_delivered: a failed write is logged and swallowed
mark_message_delivered(message_id, ok) ==
    IF ok THEN [outbox EXCEPT ![message_id].delivered = TRUE] ELSE outbox

\* variant: a message whose post failed is enqueued again as a new document
DeliverResult_requeue(message, posted, marked) ==
    IF posted
    THEN [log |-> Append(slackLog, message),
          box |-> mark_message_delivered(message, marked),
          failed |-> postFailed]
    ELSE [log |-> slackLog,
          box |-> IF FreeMsgIds = {} THEN outbox
                  ELSE outbox @@ (Min(FreeMsgIds) :> outbox[message]),
          failed |-> postFailed \cup {message}]

\* variant: the message is marked delivered whether or not the post succeeded
DeliverResult_mark_anyway(message, posted, marked) ==
    [log |-> IF posted THEN Append(slackLog, message) ELSE slackLog,
     box |-> mark_message_delivered(message, marked),
     failed |-> IF posted THEN postFailed ELSE postFailed \cup {message}]

\* the body of the loop for one fetched message: chat_postMessage, then
\* mark_delivered; a failed post is caught and the loop goes on
DeliverResult(message, posted, marked) ==
    IF posted
    THEN [log |-> Append(slackLog, message),
          box |-> mark_message_delivered(message, marked),
          failed |-> postFailed]
    ELSE [log |-> slackLog, box |-> outbox,
          failed |-> postFailed \cup {message}]

\* variant: a failed post ends the cycle (the try around the whole loop)
AfterAttempt_abort(w, posted) ==
    IF posted THEN [w EXCEPT !.i = @ + 1] ELSE [w EXCEPT !.pc = "idle"]

\* the for loop after the attempt on one message: the except clause inside
\* the loop catches a failed post, so the loop goes on to the next message
AfterAttempt(w, posted) == [w EXCEPT !.i = @ + 1]

\* one turn of the loop, or the return when the list is empty or exhausted
DeliverNext ==
    /\ worker.pc = "loop"
    /\ IF worker.i > Len(worker.fetched)
       THEN /\ worker' = [worker EXCEPT !.pc = "idle"]
            /\ UNCHANGED <<slackLog, outbox, postFailed>>
       ELSE /\ Len(slackLog) < MaxPosts
            /\ \E posted \in BOOLEAN, marked \in BOOLEAN :
                 LET r == DeliverResult(worker.fetched[worker.i], posted, marked)
                 IN  /\ slackLog' = r.log
                     /\ outbox' = r.box
                     /\ postFailed' = r.failed
                     /\ worker' = AfterAttempt(worker, posted)
    /\ UNCHANGED <<now, schedules, disp, job, origin, probe, hist,
                   user_sessions>>

(***************************************************************************)
(* The system: both loops, forced executions, the users and the clock      *)
(***************************************************************************)
Next ==
    \/ Tick
    \/ SaveSchedule(SchedIds, Prompts, CronInputs, TimezoneInputs)
    \/ DeactivateSchedule
    \/ DispatchList
    \/ DispatchNext
    \/ \E e \in Executors : JobStep(e, FreeMsgIds)
    \/ ForceExecute
    \/ DeliverFetch
    \/ DeliverNext
    \/ GetUserSchedules

Spec == Init /\ [][Next]_vars

(***************************************************************************)
(* The producer side alone: one schedule, the dispatcher and forced        *)
(* executions running concurrently, with the delivery worker stopped       *)
(***************************************************************************)
NextJobs ==
    \/ Tick
    \/ SaveSchedule({1}, Prompts, {CronDaily, CronBad}, {"UTC"})
    \/ DeactivateSchedule
    \/ DispatchList
    \/ DispatchNext
    \/ \E e \in Executors : JobStep(e, FirstFreeMsgId)
    \/ ForceExecute

SpecJobs == Init /\ [][NextJobs]_vars

(***************************************************************************)
(* The dispatcher as deployed (process_research_schedules, one instance at *)
(* a time): its cycles over up to MaxSchedules schedules, one of which may *)
(* name a timezone that pytz does not know, and no forced execution        *)
(***************************************************************************)
DispatchTimezones == {"UTC", "Mars/Olympus"}

NextDispatch ==
    \/ Tick
    \/ SaveSchedule(SchedIds, Prompts, {CronDaily}, DispatchTimezones)
    \/ DeactivateSchedule
    \/ DispatchList
    \/ DispatchNext
    \/ JobStep("dispatcher", FirstFreeMsgId)

SpecDispatch == Init /\ [][NextDispatch]_vars

(***************************************************************************)
(* The listings: users create, deactivate and list schedules (all with a   *)
(* valid prompt, in UTC) while the dispatcher runs its cycles, within one  *)
(* tick of the clock                                                       *)
(***************************************************************************)
NextListings ==
    \/ SaveSchedule(SchedIds, {PromptGood}, {CronDaily}, {"UTC"})
    \/ DeactivateSchedule
    \/ GetUserSchedules
    \/ DispatchList
    \/ DispatchNext
    \/ JobStep("dispatcher", FirstFreeMsgId)

SpecListings == Init /\ [][NextListings]_vars

(***************************************************************************)
(* The consumer side: the delivery worker, with forced executions of one   *)
(* schedule as the producer of outbox messages                             *)
(***************************************************************************)
NextDelivery ==
    \/ Tick
    \/ SaveSchedule({1}, {PromptGood}, {CronDaily}, {"UTC"})
    \/ ForceExecute
    \/ JobStep("force", FreeMsgIds)
    \/ DeliverFetch
    \/ DeliverNext

SpecDelivery == Init /\ [][NextDelivery]_vars

(***************************************************************************)
(* Stand-alone due evaluation: a schedule document and an instant drawn    *)
(* from bounded sets, evaluated by both implementations                    *)
(***************************************************************************)
ProbeTimezones == KnownTimezones \cup {"Mars/Olympus"}

ProbeSchedules ==
    { [NewScheduleDoc("T1", "U1", "C1", PromptGood, cron, tz) EXCEPT !.last_run = lr] :
        cron \in CronInputs, tz \in ProbeTimezones,
        lr \in {None} \cup {Some(t) : t \in (StartTime - TicksPerWeek)..MaxTime} }

InitDue ==
    /\ now \in Times
    /\ probe \in { [evaluated |-> FALSE, schedule |-> s] : s \in ProbeSchedules }
    /\ probe.schedule.last_run # None => Val(probe.schedule.last_run) <= now
    /\ schedules = <<>>
    /\ outbox = <<>>
    /\ disp = [pc |-> "idle", list |-> <<>>, count |-> 0]
    /\ job = [e \in Executors |-> IdleJob]
    /\ worker = [pc |-> "idle", fetched |-> <<>>, i |-> 1]
    /\ slackLog = <<>>
    /\ origin = <<>>
    /\ postFailed = {}
    /\ hist = NoHistory
    /\ user_sessions = <<>>

DueEvaluate ==
    /\ probe' = [ evaluated |-> TRUE,
                  schedule  |-> probe.schedule,
                  at        |-> now,
                  due       |-> is_schedule_due(probe.schedule, now),
                  due_fc    |-> is_schedule_due_firebase_client(probe.schedule, now) ]
    /\ UNCHANGED <<now, schedules, outbox, disp, job, worker, slackLog, origin,
                   postFailed, hist, user_sessions>>

NextDue == Tick \/ DueEvaluate

SpecDue == InitDue /\ [][NextDue]_vars

(***************************************************************************)
(* Intake and evaluation of one document: a schedule document and an       *)
(* instant drawn from bounded sets, evaluated once and then again, while   *)
(* save_schedule is called with expressions and timezones of every kind    *)
(***************************************************************************)
\* a second call of is_schedule_due on the same document, kept beside the
\* first call's result
DueEvaluateAgain ==
    /\ probe.evaluated
    /\ probe' = ("again" :> [ at     |-> now,
                              due    |-> is_schedule_due(probe.schedule, now),
                              due_fc |-> is_schedule_due_firebase_client(probe.schedule, now) ])
                 @@ probe
    /\ UNCHANGED <<now, schedules, outbox, disp, job, worker, slackLog, origin,
                   postFailed, hist, user_sessions>>

NextIntake ==
    \/ Tick
    \/ DueEvaluate
    \/ DueEvaluateAgain
    \/ SaveSchedule({1}, {PromptGood}, CronInputs, ProbeTimezones)

SpecIntake == InitDue /\ [][NextIntake]_vars

(***************************************************************************)
(* Interleaved executions: up to MaxSchedules schedules, the dispatcher    *)
(* and a forced execution each inside execute_research_job at the same     *)
(* time, within one tick of the clock                                      *)
(***************************************************************************)
NextInterleave ==
    \/ SaveSchedule(SchedIds, {PromptGood}, {CronDaily}, {"UTC"})
    \/ DispatchList
    \/ DispatchNext
    \/ \E e \in Executors : JobStep(e, FirstFreeMsgId)
    \/ ForceExecute

SpecInterleave == Init /\ [][NextInterleave]_vars

(***************************************************************************)
(* The delivery worker as a thread that keeps running: the while True loop *)
(* of background_message_delivery starts a cycle whenever the last one     *)
(* returned, and every turn of the for loop ends (a post returns or        *)
(* raises), whence the weak fairness of the worker's two actions.  Nothing *)
(* is assumed about the outcome of a read, a post or a write.  The         *)
(* producer is forced executions of one schedule, within one tick.         *)
(***************************************************************************)
NextDeliveryLive ==
    \/ SaveSchedule({1}, {PromptGood}, {CronDaily}, {"UTC"})
    \/ ForceExecute
    \/ JobStep("force", FirstFreeMsgId)
    \/ DeliverFetch
    \/ DeliverNext

SpecDeliveryLive ==
    /\ Init /\ [][NextDeliveryLive]_vars
    /\ WF_vars(DeliverFetch)
    /\ WF_vars(DeliverNext)

(***************************************************************************)
(* All the processes at once on one schedule: the user, the dispatcher, a  *)
(* forced execution and the delivery worker, within one tick of the clock  *)
(***************************************************************************)
NextConcurrent ==
    \/ SaveSchedule({1}, {PromptGood}, {CronDaily}, {"UTC"})
    \/ DeactivateSchedule
    \/ DispatchList
    \/ DispatchNext
    \/ \E e \in Executors : JobStep(e, FirstFreeMsgId)
    \/ ForceExecute
    \/ DeliverFetch
    \/ DeliverNext

SpecConcurrent == Init /\ [][NextConcurrent]_vars

(***************************************************************************)
(* Stand-alone prompt validation: a prompt drawn from a bounded set of     *)
(* texts (short and long, padded with whitespace, with and without the     *)
(* disallowed terms in several spellings) is given to validate_prompt      *)
(***************************************************************************)
PromptPads == { <<>>, <<" ">>, <<"\t","\n">> }

PromptCores ==
    {
      <<>>,
      <<"a","b">>,
      <<"A","I"," ","h","i","s","t","o","r">>,
      <<"A","I"," ","h","i","s","t","o","r","y">>,
      <<"a"," "," "," "," "," "," "," "," ","b">>,
      <<"h","o","w"," ","t","o"," ","h","a","c","k">>,
      <<"h","o","w"," ","t","o"," ","H","a","C","k">>,
      <<"s","h","a","c","k","l","e","t","o","n","!">>,
      <<"I","L","L","E","G","A","L"," ","a","c","t">>,
      <<"h","a","r","m","f","u","l">>,
      <<"H","a","r","m","f","u","l"," ","g","a","s">>,
      <<"h"," ","a"," ","c"," ","k"," ","e"," ","r"," ","s">>,
      <<"i","l","l","e","g","i","b","l","e","!">> }

PromptInputs ==
    { l \o c \o r : l \in PromptPads, c \in PromptCores, r \in PromptPads }

InitPrompt ==
    /\ probe \in { [evaluated |-> FALSE, validated |-> FALSE, prompt |-> p] :
                     p \in PromptInputs }
    /\ now = StartTime
    /\ schedules = <<>>
    /\ outbox = <<>>
    /\ disp = [pc |-> "idle", list |-> <<>>, count |-> 0]
    /\ job = [e \in Executors |-> IdleJob]
    /\ worker = [pc |-> "idle", fetched |-> <<>>, i |-> 1]
    /\ slackLog = <<>>
    /\ origin = <<>>
    /\ postFailed = {}
    /\ hist = NoHistory
    /\ user_sessions = <<>>

ValidatePrompt ==
    /\ probe' = [ evaluated |-> FALSE,
                  validated |-> TRUE,
                  prompt    |-> probe.prompt,
                  valid     |-> validate_prompt(probe.prompt) ]
    /\ UNCHANGED <<now, schedules, outbox, disp, job, worker, slackLog, origin,
                   postFailed, hist, user_sessions>>

NextPrompt == ValidatePrompt

SpecPrompt == InitPrompt /\ [][NextPrompt]_vars

(***************************************************************************)
(* Forced executions observed: force_execute_schedule is called with ids   *)
(* that exist and ids that do not, on a schedule that may be inactive or   *)
(* not due; each call leaves in probe the id it was given, whether the     *)
(* read of the record succeeded, and whether it entered                    *)
(* execute_research_job                                                    *)
(***************************************************************************)
ForceExecuteLogged ==
    /\ job["force"].pc = "idle"
    /\ \E schedule_id \in SchedIds, ok \in BOOLEAN :
         LET schedule == get_schedule_by_id(schedule_id, ok)
         IN  /\ job' = IF schedule # None
                       THEN [job EXCEPT !["force"] = StartJob(Val(schedule))]
                       ELSE job
             /\ probe' = [ evaluated |-> FALSE,
                           forced    |-> schedule_id,
                           read_ok   |-> ok,
                           ran       |-> schedule # None ]
    /\ UNCHANGED <<now, schedules, outbox, disp, worker, slackLog, origin,
                   postFailed, hist, user_sessions>>

NextForce ==
    \/ Tick
    \/ SaveSchedule({1}, Prompts, {CronDaily}, {"UTC"})
    \/ DeactivateSchedule
    \/ ForceExecuteLogged
    \/ JobStep("force", FirstFreeMsgId)

SpecForce == Init /\ [][NextForce]_vars

(***************************************************************************)
(* The setup conversation (slack.py): a user's messages walk a session     *)
(* through the steps "waiting_for_prompt", "waiting_for_schedule" and      *)
(* "confirming"; "confirm" saves the schedule.  Each handler leaves in     *)
(* probe which handler ran, for which user and on which text.  A call of   *)
(* say posts to Slack and may raise.                                       *)
(***************************************************************************)
SetupUsers == {"U1", "U2"}
SetupIds   == {1}

TextHi      == <<"h","i">>
TextTopic   == <<"n","e","w","s">>
TextDaily   == <<"d","a","i","l","y"," ","1">>
TextSoon    == <<"s","o","o","n">>
TextLate    == <<"m","o","n"," ","7">>
TextConfirm == <<" ","C","o","n","f","i","r","m">>
TextCancel  == <<"c","a","n","c","e","l">>

SetupTexts ==
    { TextHi, TextTopic, TextDaily, TextSoon, TextLate, TextConfirm,
      TextCancel }

Digits == <<"0","1","2","3","4","5","6","7","8","9">>
IsDigit(c) == \E i \in DOMAIN Digits : Digits[i] = c
DigitValue(c) == (CHOOSE i \in DOMAIN Digits : Digits[i] = c) - 1

\* the day names of the scaled week: day 0 is Sunday, day 1 is Monday
day_map ==
    { [name |-> <<"m","o","n","d","a","y">>, num |-> 1],
      [name |-> <<"s","u","n","d","a","y">>, num |-> 0],
      [name |-> <<"m","o","n">>,             num |-> 1],
      [name |-> <<"s","u","n">>,             num |-> 0] }

\* parse_friendly_schedule: the expression for a text "<days> <hour>", or
\* None.  The hour is the one or two digits that end the text (minutes and
\* the am/pm suffixes are left out) and must be an hour of the scaled day;
\* the days are the words found in the text before it.
parse_friendly_schedule(schedule_text) ==
    LET text   == Strip(Lower(schedule_text))
        n      == Len(text)
        start  == IF n >= 2 /\ IsDigit(text[n - 1]) THEN n - 1 ELSE n
        hour   == IF start = n THEN DigitValue(text[n])
                  ELSE 10 * DigitValue(text[n - 1]) + DigitValue(text[n])
        days_text == Strip(SubSeq(text, 1, start - 1))
        days   == { d.num : d \in { e \in day_map : Contains(days_text, e.name) } }
    IN  IF n = 0 \/ ~IsDigit(text[n]) THEN None
        ELSE IF hour < 0 \/ hour > TicksPerDay - 1 THEN None
        ELSE IF \/ Contains(days_text, <<"e","v","e","r","y"," ","d","a","y">>)
                \/ Contains(days_text, <<"d","a","i","l","y">>)
             THEN Some([hour |-> Field({hour}), dow |-> Star])
        ELSE IF Contains(days_text, <<"w","e","e","k","d","a","y">>)
             THEN Some([hour |-> Field({hour}), dow |-> Field({1})])
        ELSE IF Contains(days_text, <<"w","e","e","k","e","n","d">>)
             THEN Some([hour |-> Field({hour}), dow |-> Field({0})])
        ELSE IF days = {} THEN None
        ELSE Some([hour |-> Field({hour}), dow |-> Field(days)])

\* SetupSession.__init__
SetupSession(user_id, channel_id, workspace_id) ==
    [ user_id       |-> user_id,
      channel_id    |-> channel_id,
      workspace_id  |-> workspace_id,
      prompt        |-> None,
      cron_schedule |-> None,
      step          |-> "waiting_for_prompt" ]

\* get_session
get_session(user_id) ==
    IF user_id \in DOMAIN user_sessions
    THEN Some(user_sessions[user_id]) ELSE None

\* start_session: user_sessions[user_id] = SetupSession(...)
start_session(user_id, channel_id, workspace_id) ==
    [ u \in DOMAIN user_sessions \cup {user_id} |->
        IF u = user_id THEN SetupSession(user_id, channel_id, workspace_id)
        ELSE user_sessions[u] ]

\* end_session
end_session(user_id) == Drop(user_sessions, user_id)

\* save_user_schedule -> FirebaseClient.save_schedule: the collection with
\* the new document, or None when the call raises (an expression that does
\* not validate, or a failed write)
save_user_schedule(id, workspace_id, user_id, channel_id, prompt, cron_schedule, timezone_str, ok) ==
    IF validate_cron_schedule(cron_schedule) /\ ok
    THEN Some(schedules @@ (id :> NewScheduleDoc(workspace_id, user_id,
                              channel_id, prompt, cron_schedule, timezone_str)))
    ELSE None

\* variant: the prompt step goes straight to the confirmation
handle_setup_conversation_skip_schedule(session, text, said, id, ok) ==
    LET same == [sessions |-> user_sessions, schedules |-> schedules]
    IN  IF session.step = "waiting_for_prompt"
        THEN [ sessions  |-> [user_sessions EXCEPT ![session.user_id] =
                                [session EXCEPT !.prompt = Some(text),
                                                !.step = "confirming"]],
               schedules |-> schedules ]
        ELSE same

\* handle_setup_conversation: the sessions and the schedules after the
\* handler.  said tells whether the handler's say succeeds (a say that
\* raises ends the handler where it stands; after a save it lands in the
\* except branch), id is the id the store gives a new document and ok
\* whether its write succeeds.
handle_setup_conversation(session, text, said, id, ok) ==
    LET put(s) == [user_sessions EXCEPT ![session.user_id] = s]
        same   == [sessions |-> user_sessions, schedules |-> schedules]
    IN  CASE session.step = "waiting_for_prompt" ->
               [ sessions  |-> put([session EXCEPT
                                 !.prompt = Some(text),
                                 !.step = IF said THEN "waiting_for_schedule"
                                          ELSE "confirming_prompt"]),
                 schedules |-> schedules ]
          [] session.step = "waiting_for_schedule" ->
               LET cron == parse_friendly_schedule(text)
               IN  IF cron = None THEN same
                   ELSE IF ~validate_cron_schedule(Val(cron)) THEN same
                   ELSE [ sessions  |-> put([session EXCEPT
                                          !.cron_schedule = cron,
                                          !.step = "confirming"]),
                          schedules |-> schedules ]
          [] session.step = "confirming" ->
               IF Lower(text) = <<"c","o","n","f","i","r","m">>
               THEN LET saved == save_user_schedule(id, session.workspace_id,
                                   session.user_id, session.channel_id,
                                   Val(session.prompt),
                                   Val(session.cron_schedule), "UTC", ok)
                    IN  IF saved = None THEN same
                        ELSE [ sessions  |-> IF said
                                             THEN end_session(session.user_id)
                                             ELSE user_sessions,
                               schedules |-> Val(saved) ]
               ELSE IF Lower(text) = <<"c","a","n","c","e","l">>
               THEN [ sessions  |-> IF said THEN end_session(session.user_id)
                                    ELSE user_sessions,
                      schedules |-> schedules ]
               ELSE same
          [] OTHER -> same

\* what a handler leaves in probe
Handled(handler, user_id, text) ==
    [ evaluated |-> FALSE, handler |-> handler, user |-> user_id,
      text |-> text ]

\* handle_greeting: app.message("hi") takes every message whose text
\* contains "hi", and Bolt runs the first listener that matches
HandleGreeting ==
    /\ \E user_id \in SetupUsers, channel_id \in Channels,
          workspace_id \in Workspaces, text \in SetupTexts :
         /\ Contains(text, TextHi)
         /\ user_sessions' = start_session(user_id, channel_id, workspace_id)
         /\ probe' = Handled("handle_greeting", user_id, text)
    /\ UNCHANGED <<now, schedules, outbox, disp, job, worker, slackLog, origin,
                   postFailed, hist>>

\* handle_message_events: every other message of a user; a user without a
\* session is ignored
HandleMessageEvents ==
    /\ \E user_id \in SetupUsers, raw \in SetupTexts, said \in BOOLEAN,
          ok \in BOOLEAN :
         LET text    == Strip(raw)
             session == get_session(user_id)
             free    == SetupIds \ DOMAIN schedules
             saving  == /\ session # None
                        /\ Val(session).step = "confirming"
                        /\ Lower(text) = <<"c","o","n","f","i","r","m">>
             id      == IF free = {} THEN 0
                        ELSE CHOOSE i \in free : \A k \in free : i <= k
             r       == IF session = None
                        THEN [sessions |-> user_sessions, schedules |-> schedules]
                        ELSE handle_setup_conversation(Val(session), text,
                                                       said, id, ok)
         IN  /\ ~Contains(raw, TextHi)
             /\ saving => free # {}
             /\ user_sessions' = r.sessions
             /\ schedules' = r.schedules
             /\ probe' = Handled("handle_message_events", user_id, text)
    /\ UNCHANGED <<now, outbox, disp, job, worker, slackLog, origin,
                   postFailed, hist>>

\* handle_setup_command: /setup-deep-research starts a session for a user
\* whose listing of schedules comes back empty
HandleSetupCommand ==
    /\ \E user_id \in SetupUsers, channel_id \in Channels,
          workspace_id \in Workspaces, ok \in BOOLEAN :
         /\ user_sessions' =
               IF get_user_schedules(workspace_id, user_id, ok) = <<>>
               THEN start_session(user_id, channel_id, workspace_id)
               ELSE user_sessions
         /\ probe' = Handled("handle_setup_command", user_id, <<>>)
    /\ UNCHANGED <<now, schedules, outbox, disp, job, worker, slackLog, origin,
                   postFailed, hist>>

NextSetup ==
    \/ HandleGreeting
    \/ HandleMessageEvents
    \/ HandleSetupCommand

SpecSetup == Init /\ [][NextSetup]_vars

(***************************************************************************)
(*                            PROPERTIES                                   *)
(***************************************************************************)
Range(f) == {f[x] : x \in DOMAIN f}

\* the occurrences of a recurrence before instant t, and at or before it
OccurrencesBefore(cron, tz, t) ==
    {p \in (t - TicksPerWeek)..(t - 1) : Occurs(cron, tz, p)}
OccurrencesUpTo(cron, tz, t) ==
    {p \in (t - TicksPerWeek)..t : Occurs(cron, tz, p)}

Max(S) == CHOOSE x \in S : \A y \in S : x >= y

\* the due rule of the specification, for a given previous occurrence
DueRule(last_run, prev, t) ==
    t >= prev /\ (last_run = None \/ Val(last_run) < prev)

ProbeValid == probe.evaluated /\ ~DueRaises(probe.schedule)

\* C1 as stated: for a valid schedule, is_schedule_due is true if and only if
\* now >= prev and (last_run is null or last_run < prev), where prev is the
\* most recent occurrence AT OR BEFORE now.
C1_DueIffAtOrBefore ==
    ProbeValid =>
        LET s    == probe.schedule
            prev == Max(OccurrencesUpTo(s.cron_schedule, s.timezone, probe.at))
        IN  probe.due = DueRule(s.last_run, prev, probe.at)

\* C1 as amended: the same rule with prev the most recent occurrence STRICTLY
\* BEFORE now (an occurrence that falls exactly on now is not counted yet);
\* both implementations follow it, and so last_run = prev gives not due and
\* last_run just before prev gives due.
C1_DueIffStrictlyBefore ==
    ProbeValid =>
        LET s    == probe.schedule
            prev == Max(OccurrencesBefore(s.cron_schedule, s.timezone, probe.at))
        IN  /\ probe.due = DueRule(s.last_run, prev, probe.at)
            /\ probe.due_fc = DueRule(s.last_run, prev, probe.at)

\* C1 witness: an evaluation of a schedule last run exactly at the previous
\* occurrence (not due), in a zone other than UTC
C1_Witness ==
    /\ ProbeValid
    /\ probe.schedule.timezone # "UTC"
    /\ probe.schedule.last_run # None
    /\ Val(probe.schedule.last_run) =
          Max(OccurrencesBefore(probe.schedule.cron_schedule,
                                probe.schedule.timezone, probe.at))
    /\ ~probe.due

\* C2: a schedule that never ran (last_run null) is due for every valid
\* recurrence expression, every valid timezone and every instant.
C2_NeverRunIsDue ==
    (ProbeValid /\ probe.schedule.last_run = None) =>
        (probe.due /\ probe.due_fc)

\* C2 witness: a never-run weekly schedule evaluated as due at an instant that
\* is not one of its occurrences
C2_Witness ==
    /\ ProbeValid
    /\ probe.schedule.last_run = None
    /\ probe.schedule.cron_schedule = CronWeekly
    /\ ~Occurs(CronWeekly, probe.schedule.timezone, probe.at)
    /\ probe.due

(***************************************************************************)
(* Job execution (SpecJobs)                                                *)
(***************************************************************************)
\* executor e takes a step of its execute_research_job
JobMoves(e) == job'[e] # job[e]

\* C3: when the research engine call raises during execute_research_job, that
\* execution leaves every schedule's last_run unchanged and appends no message
\* to the outbox: from the raise on, its steps change neither collection, it
\* has appended nothing, and it can only return.
C3_EngineRaiseNoEffect ==
    [][\A e \in Executors :
         (JobMoves(e) /\ (job[e].pc = "except" \/ job'[e].pc = "except")) =>
            /\ schedules' = schedules
            /\ outbox' = outbox
            /\ job[e].appended = FALSE /\ job'[e].appended = FALSE
            /\ job[e].pc = "except" => job'[e] = IdleJob]_vars

\* C3 witness: the dispatcher's job is in its except clause after the engine
\* raised, the schedule never ran and the outbox is empty
C3_Witness ==
    /\ job["dispatcher"].pc = "except"
    /\ schedules[Val(job["dispatcher"].sid)].last_run = None
    /\ outbox = <<>>

\* C4: no partial commit: whenever an execution advances last_run, the outbox
\* holds a message that this same execution appended (a failed enqueue write
\* never leads to an advanced last_run).
C4_NoPartialCommit ==
    [][\A e \in Executors :
         ( /\ job[e].pc = "commit"
           /\ JobMoves(e)
           /\ schedules'[Val(job[e].sid)].last_run
                 # schedules[Val(job[e].sid)].last_run )
         => job[e].appended]_vars

\* C5: across any interleaving of job executions, a schedule's last_run, once
\* set, never decreases: each write stores a value greater than or equal to
\* the one it replaces.
C5_LastRunMonotone ==
    [][\A id \in DOMAIN schedules :
         schedules[id].last_run # None =>
            /\ schedules'[id].last_run # None
            /\ Val(schedules'[id].last_run) >= Val(schedules[id].last_run)]_vars

\* C6: a schedule whose prompt fails validation is never taken past the
\* validation by any execution (so the engine is never called for it), never
\* has a message in the outbox and keeps its last_run, in every cycle.
C6_InvalidPromptNoEffect ==
    \A id \in DOMAIN schedules :
        ~validate_prompt(schedules[id].prompt) =>
            /\ schedules[id].last_run = None
            /\ \A e \in Executors : job[e].sid # Some(id)
            /\ \A m \in DOMAIN origin : origin[m] # id

\* C6 witness: a dispatcher cycle has handed the schedule with prompt "ab" to
\* execute_research_job (and counted it), and nothing was enqueued or written
C6_Witness ==
    /\ DOMAIN schedules = {1}
    /\ schedules[1].prompt = PromptAb
    /\ disp.count = 1
    /\ outbox = <<>>
    /\ schedules[1].last_run = None

(***************************************************************************)
(* Delivery (SpecDelivery)                                                 *)
(***************************************************************************)
\* the position of the first successful post of message m
FirstPost(m) == Min({i \in DOMAIN slackLog : slackLog[i] = m})

\* the worker attempts a fetched message in this step
Attempts(m) ==
    /\ worker.pc = "loop"
    /\ worker.i <= Len(worker.fetched)
    /\ worker.fetched[worker.i] = m
    /\ worker' # worker

\* the worker starts a cycle in this step
Fetches == worker.pc = "idle" /\ worker'.pc = "loop"

\* C7: no outbox message is ever delivered twice: each message is posted
\* successfully to the messaging surface at most once.
C7_PostedAtMostOnce ==
    \A i, j \in DOMAIN slackLog : i # j => slackLog[i] # slackLog[j]

\* C8 as stated: delivery preserves order: of two messages created at
\* different times, the one created earlier is posted successfully before the
\* one created later.
C8_PostedInCreationOrder ==
    \A a, b \in DOMAIN outbox :
        (outbox[a].created_at < outbox[b].created_at /\ b \in Range(slackLog)) =>
            (a \in Range(slackLog) /\ FirstPost(a) < FirstPost(b))

\* C8 as amended: within one delivery cycle the fetched messages are attempted
\* in creation order: when a message is posted, every message fetched in the
\* same cycle with an earlier creation time has already been attempted in
\* that cycle (a message whose post failed is retried in a later cycle, after
\* later messages may have been posted).
C8_AttemptedInCreationOrder ==
    [][\A m \in DOMAIN outbox :
         slackLog' = Append(slackLog, m) =>
            /\ Attempts(m)
            /\ \A k \in DOMAIN worker.fetched :
                 outbox[worker.fetched[k]].created_at < outbox[m].created_at
                    => k < worker.i]_vars

\* C8 witness: a cycle has posted two messages created at different times,
\* the earlier one first, although its document name is the greater one
C8_Witness ==
    /\ Len(worker.fetched) = 2
    /\ worker.i = 3
    /\ slackLog = worker.fetched
    /\ worker.fetched[1] > worker.fetched[2]
    /\ outbox[worker.fetched[1]].created_at < outbox[worker.fetched[2]].created_at

\* C9: every outbox message is created with delivered = false; the flag is
\* set to true only by the delivery worker, in the step that posted that
\* message successfully, and is never set back to false (so it is set once).
C9_DeliveredFlag ==
    [][\A m \in DOMAIN outbox' :
         IF m \notin DOMAIN outbox
         THEN outbox'[m].delivered = FALSE
         ELSE /\ outbox[m].delivered => outbox'[m].delivered
              /\ (~outbox[m].delivered /\ outbox'[m].delivered) =>
                    (Attempts(m) /\ slackLog' = Append(slackLog, m))]_vars

\* C9 witness: a message posted once and marked delivered
C9_Witness ==
    \E m \in DOMAIN outbox :
        /\ outbox[m].delivered
        /\ Cardinality({i \in DOMAIN slackLog : slackLog[i] = m}) = 1

\* in both forms of C10: a failed post leaves the message undelivered, and
\* the cycle goes on: it attempts the fetched messages one after the other
\* and returns only when all of them have been attempted
C10_FailureIsolated ==
    /\ \A m \in DOMAIN outbox :
         (Attempts(m) /\ slackLog' = slackLog) =>
            (m \in postFailed' /\ outbox'[m].delivered = FALSE)
    /\ (worker.pc = "loop" /\ worker' # worker) =>
         /\ worker'.fetched = worker.fetched
         /\ IF worker.i <= Len(worker.fetched)
            THEN worker'.pc = "loop" /\ worker'.i = worker.i + 1
            ELSE worker'.pc = "idle"

\* C10 as stated: moreover a message whose post failed is fetched again in
\* the next delivery cycle (as long as it is undelivered).
C10_RetriedNextCycle ==
    [][/\ C10_FailureIsolated
       /\ Fetches =>
            \A m \in postFailed :
                ~outbox[m].delivered => m \in Range(worker'.fetched)]_vars

\* C10 as amended: moreover a message whose post failed is fetched again in
\* the next delivery cycle whose fetch succeeds; a cycle whose fetch fails
\* gets an empty list and attempts nothing.
C10_RetriedNextFetchedCycle ==
    [][/\ C10_FailureIsolated
       /\ Fetches =>
            \/ worker'.fetched = <<>>
            \/ \A m \in postFailed :
                  ~outbox[m].delivered => m \in Range(worker'.fetched)]_vars

\* C10 witness: the post of the earlier message failed, the later message was
\* still attempted and posted, and the earlier one was posted in a later cycle
C10_Witness ==
    \E a, b \in DOMAIN outbox :
        /\ a # b
        /\ outbox[a].created_at < outbox[b].created_at
        /\ a \in postFailed
        /\ slackLog = <<b, a>>

(***************************************************************************)
(* Dispatcher cycles (SpecDispatch)                                        *)
(***************************************************************************)
\* the dispatcher starts a cycle in this step (get_active_schedules returns)
Lists == disp.pc = "idle" /\ disp'.pc = "loop"

\* the ids of the schedules a list of snapshots holds
ListedIds(list) == {list[i].id : i \in DOMAIN list}

\* the loop takes schedule id from its list and evaluates it in this step
Evaluates(id) ==
    /\ disp.pc = "loop"
    /\ disp.list # <<>>
    /\ Head(disp.list).id = id
    /\ disp'.list = Tail(disp.list)

\* the loop hands schedule id to execute_research_job in this step
Executes(id) == Evaluates(id) /\ hist'.handed = hist.handed + 1

\* the schedules whose latest dispatcher execution ended as kind says and
\* whose last_run has not been written since
Owed(kind) == {id \in DOMAIN hist.owed : hist.owed[id] = kind}

\* in both forms of C11: a schedule whose engine call failed is found due and
\* executed again, up to the engine call, by every later cycle that
\* evaluates it, as long as no execution has written its last_run
C11_ExecutedWhenEvaluated ==
    \A id \in Owed("engine") :
        Evaluates(id) =>
            /\ Executes(id)
            /\ job'["dispatcher"].pc = "research"
            /\ job'["dispatcher"].sid = Some(id)

\* C11 as stated: after a failed engine call the schedule is still due in the
\* next dispatcher cycle and in every later one, and is executed again in
\* each of them, until an execution succeeds or the schedule is deactivated.
C11_RetriedEveryCycle ==
    [][/\ C11_ExecutedWhenEvaluated
       /\ Lists =>
            \A id \in Owed("engine") :
                schedules[id].active => id \in ListedIds(disp'.list)]_vars

\* C11 as amended: the same for every later cycle whose listing of the active
\* schedules succeeds; a cycle whose listing fails gets an empty list and
\* evaluates nothing.
C11_RetriedEveryListedCycle ==
    [][/\ C11_ExecutedWhenEvaluated
       /\ Lists =>
            \/ disp'.list = <<>>
            \/ \A id \in Owed("engine") :
                  schedules[id].active => id \in ListedIds(disp'.list)]_vars

\* C11 witness: at a later instant than the failure a cycle is executing
\* again, at the engine call, a schedule whose engine call had failed
C11_Witness ==
    \E id \in Owed("engine") :
        /\ job["dispatcher"].pc = "research"
        /\ job["dispatcher"].sid = Some(id)
        /\ schedules[id].last_run = None
        /\ now > StartTime

\* the dispatcher's execution of schedule id returns in this step from an
\* update_last_run whose write failed, after its enqueue had succeeded
CommitFails(id) ==
    /\ job["dispatcher"].pc = "commit"
    /\ job["dispatcher"].sid = Some(id)
    /\ job["dispatcher"].appended
    /\ job'["dispatcher"].pc = "idle"
    /\ id \in DOMAIN hist'.owed
    /\ hist'.owed[id] = "commit"

\* in both forms of C12: the failed last_run write is swallowed (the execution
\* returns normally, is counted, and the loop goes on), last_run keeps its old
\* value, and every later cycle that evaluates the schedule finds it due
\* again and executes it again, as long as no last_run write has landed
C12_SwallowedAndDueAgain ==
    /\ \A id \in DOMAIN schedules :
         CommitFails(id) =>
            /\ schedules' = schedules
            /\ outbox' = outbox
            /\ disp'.pc = "loop"
            /\ disp'.list = disp.list
            /\ disp'.count = disp.count + 1
    /\ \A id \in Owed("commit") :
         Evaluates(id) =>
            /\ Executes(id)
            /\ job'["dispatcher"].pc = "research"
            /\ job'["dispatcher"].sid = Some(id)

\* C12 as stated: when the enqueue succeeded and the last_run write failed,
\* the failure is swallowed, last_run keeps its old value and the schedule is
\* found due again in the next dispatcher cycle (which enqueues a second
\* message for the same occurrence).
C12_DueAgainNextCycle ==
    [][/\ C12_SwallowedAndDueAgain
       /\ Lists =>
            \A id \in Owed("commit") :
                schedules[id].active => id \in ListedIds(disp'.list)]_vars

\* C12 as amended: the schedule is found due again by the next dispatcher
\* cycle whose listing of the active schedules succeeds (a cycle whose listing
\* fails evaluates nothing), and that cycle executes it again; a second
\* message for the same occurrence is enqueued when that execution gets to
\* its enqueue before the next occurrence has passed (C12_Witness).
C12_DueAgainNextListedCycle ==
    [][/\ C12_SwallowedAndDueAgain
       /\ Lists =>
            \/ disp'.list = <<>>
            \/ \A id \in Owed("commit") :
                  schedules[id].active => id \in ListedIds(disp'.list)]_vars

\* C12 witness: after a failed last_run write the outbox holds two messages
\* of the same schedule, enqueued by two executions for the same occurrence
C12_Witness ==
    \E a, b \in DOMAIN hist.msgOcc :
        /\ a # b
        /\ origin[a] = origin[b]
        /\ hist.msgOcc[a] = hist.msgOcc[b]
        /\ hist.wfail

\* C13: within one dispatcher cycle no failure aborts the batch: whatever
\* happens to one schedule (its evaluation raises, its prompt is invalid, its
\* engine call raises, its store writes fail), the loop keeps its list, takes
\* the listed schedules one after the other, evaluates each of them, executes
\* each one found due, and returns only when the list is exhausted.
C13_BatchNeverAborted ==
    [][(disp.pc = "loop" /\ disp' # disp) =>
          IF job["dispatcher"].pc # "idle"
          THEN \* an execution returns, in whatever way: the loop goes on
               /\ job'["dispatcher"].pc = "idle"
               /\ disp'.pc = "loop"
               /\ disp'.list = disp.list
          ELSE IF disp.list = <<>>
          THEN disp' = [disp EXCEPT !.pc = "idle"]
          ELSE LET schedule == Head(disp.list)
               IN  /\ disp'.pc = "loop"
                   /\ Evaluates(schedule.id)
                   /\ Executes(schedule.id)
                         <=> is_schedule_due(Listed(schedule), now)
                   /\ DueRaises(Listed(schedule)) => job' = job]_vars

\* C13 witness: in one cycle the engine call of the first listed schedule
\* failed and the second listed schedule is being executed
C13_Witness ==
    /\ disp.pc = "loop"
    /\ hist.handed = 2
    /\ 1 \in Owed("engine")
    /\ schedules[1].last_run = None
    /\ job["dispatcher"].pc = "research"
    /\ job["dispatcher"].sid = Some(2)

\* C14: the value process_due_schedules returns for a cycle (disp.count when
\* the cycle has returned) is the number of listed schedules that the cycle
\* evaluated as due and handed to execute_research_job; during the cycle the
\* count is that number less the execution still in progress.
C14_CountIsHandedOver ==
    IF disp.pc = "loop" /\ job["dispatcher"].pc # "idle"
    THEN disp.count + 1 = hist.handed
    ELSE disp.count = hist.handed

\* C14 witness: a cycle has returned 2 after the engine call of one of the
\* two schedules it executed had failed
C14_Witness ==
    /\ disp.pc = "idle"
    /\ disp.count = 2
    /\ Owed("engine") # {}
    /\ Cardinality(DOMAIN schedules) = 2

(***************************************************************************)
(* Listings (SpecListings)                                                 *)
(***************************************************************************)
\* C15: a schedule whose active flag is false is in no result of
\* get_active_schedules or get_user_schedules, and a dispatcher cycle that
\* started after the schedule was deactivated never lists, evaluates or
\* executes it, never enqueues a message for it and never changes its
\* last_run.
C15_InactiveExcluded ==
    [][/\ Lists =>
            \A id \in ListedIds(disp'.list) : schedules[id].active
       /\ probe' # probe =>
            \A i \in DOMAIN probe'.listing : schedules[probe'.listing[i]].active
       /\ \A id \in hist'.skipped :
            /\ id \notin ListedIds(disp'.list)
            /\ ~Evaluates(id)
            /\ job'["dispatcher"].sid # Some(id)
            /\ ~Lists =>
                  /\ schedules'[id].last_run = schedules[id].last_run
                  /\ \A m \in DOMAIN origin' \ DOMAIN origin : origin'[m] # id]_vars

\* C15 witness: schedule 1 was deactivated before it ever ran; a later cycle
\* executes schedule 2 only, and the user's listing shows schedule 2 only
C15_Witness ==
    /\ hist.skipped = {1}
    /\ schedules[1].last_run = None
    /\ job["dispatcher"].pc = "commit"
    /\ job["dispatcher"].sid = Some(2)
    /\ probe = [evaluated |-> FALSE, listing |-> <<2>>]

(***************************************************************************)
(* The success path and the occurrences (SpecDispatch)                     *)
(***************************************************************************)
\* the dispatcher's execution of schedule id returns from an add_to_outbox
\* that stored its document, in this step
EnqueueOk(id) ==
    /\ job["dispatcher"].pc = "enqueue"
    /\ job["dispatcher"].sid = Some(id)
    /\ job'["dispatcher"].pc = "commit"
    /\ job'["dispatcher"].appended

\* the dispatcher's execution of schedule id, which had stored its message,
\* returns from an update_last_run whose write landed, in this step
CommitOk(id) ==
    /\ job["dispatcher"].pc = "commit"
    /\ job["dispatcher"].sid = Some(id)
    /\ job["dispatcher"].appended
    /\ job'["dispatcher"].pc = "idle"
    /\ id \notin DOMAIN hist'.owed

\* the body of the message for the engine output "# Hi"
FormattedHi == <<ResultsBanner, "*", "H", "i">>

\* C16: on the success path of a due schedule exactly one message is appended
\* to the outbox, tagged with the schedule's workspace and channel,
\* undelivered, its body the formatted engine output; last_run is then set
\* to the instant the clock showed when the enqueue returned, and an
\* evaluation of the schedule at that same instant gives not due.  No other
\* step of an execution appends to the outbox.
C16_SuccessPath ==
    [][\A id \in DOMAIN schedules :
         /\ EnqueueOk(id) =>
              \E m \in DOMAIN outbox' \ DOMAIN outbox :
                 /\ DOMAIN outbox' = DOMAIN outbox \cup {m}
                 /\ \A k \in DOMAIN outbox : outbox'[k] = outbox[k]
                 /\ outbox'[m] = [ workspace_id |-> schedules[id].workspace_id,
                                   channel_id   |-> schedules[id].channel_id,
                                   message      |-> FormattedHi,
                                   created_at   |-> now,
                                   delivered    |-> FALSE ]
                 /\ origin'[m] = id
                 /\ job'["dispatcher"].ts = Some(now)
         /\ (job["dispatcher"].sid = Some(id) /\ ~EnqueueOk(id)) =>
              outbox' = outbox
         /\ CommitOk(id) =>
              /\ schedules'[id].last_run = job["dispatcher"].ts
              /\ Val(job["dispatcher"].ts) <= now
              /\ ~is_schedule_due(schedules'[id], Val(job["dispatcher"].ts))]_vars

\* C16 witness: a first execution has succeeded: one message in the outbox,
\* last_run at the current instant, and the schedule not due at this instant
C16_Witness ==
    \E id \in DOMAIN schedules :
        /\ ~hist.wfail
        /\ schedules[id].last_run = Some(now)
        /\ Cardinality({m \in DOMAIN origin : origin[m] = id}) = 1
        /\ \E m \in DOMAIN outbox : origin[m] = id /\ outbox[m].message = FormattedHi
        /\ ~is_schedule_due(schedules[id], now)

(***************************************************************************)
(* The due rule over time (SpecDue)                                        *)
(***************************************************************************)
\* the first occurrence of a recurrence after instant t
NextOccurrence(cron, tz, t) ==
    Min({p \in (t + 1)..(t + TicksPerWeek) : Occurs(cron, tz, p)})

\* C17: after a successful execution (last_run = the instant of its commit)
\* the schedule is due again once the next occurrence after that instant has
\* passed, and not before: an evaluation at instant t is due exactly when t
\* is later than that occurrence; so a weekly schedule last run in the prior
\* week is due one week later, and no evaluation between the commit and the
\* next occurrence (that occurrence's own instant included) is due.
C17_DueAgainAfterNextOccurrence ==
    (ProbeValid /\ probe.schedule.last_run # None) =>
        LET s == probe.schedule
            n == NextOccurrence(s.cron_schedule, s.timezone, Val(s.last_run))
        IN  /\ probe.due <=> probe.at > n
            /\ probe.due_fc <=> probe.at > n

\* C17 witness: a weekly schedule evaluated exactly one week after its
\* last_run is due
C17_Witness ==
    /\ ProbeValid
    /\ probe.schedule.cron_schedule = CronWeekly
    /\ probe.schedule.last_run # None
    /\ probe.at = Val(probe.schedule.last_run) + TicksPerWeek
    /\ probe.due

(***************************************************************************)
(* Occurrences and dispatcher cycles (SpecDispatch)                        *)
(***************************************************************************)
\* the listed schedule at the head of the dispatcher's list has an unserved
\* occurrence among ps: one that its listed last_run does not reach
Unserved(ps) ==
    LET s == Listed(Head(disp.list))
    IN  /\ ~DueRaises(s)
        /\ \E p \in ps :
              /\ Occurs(s.cron_schedule, s.timezone, p)
              /\ s.last_run = None \/ Val(s.last_run) < p

\* C18 as stated: if an occurrence P has passed and last_run is null or
\* earlier than P, every dispatcher cycle that runs AT OR AFTER P finds the
\* schedule due, however late it runs, until an execution commits last_run.
C18_DueAtOrAfterOccurrence ==
    [][\A id \in DOMAIN schedules :
         (Evaluates(id) /\ Unserved((now - TicksPerWeek)..now)) =>
            Executes(id)]_vars

\* C18 as amended: the same for every dispatcher cycle that evaluates the
\* schedule STRICTLY AFTER P; a cycle that evaluates it at the very instant
\* P does not count P yet (it is picked up by the first cycle after P).
C18_DueAfterOccurrence ==
    [][\A id \in DOMAIN schedules :
         (Evaluates(id) /\ Unserved((now - TicksPerWeek)..(now - 1))) =>
            Executes(id)]_vars

\* C18 witness: a cycle that runs two ticks after an occurrence executes a
\* schedule last run before that occurrence, for that occurrence
C18_Witness ==
    \E id \in DOMAIN schedules :
        /\ job["dispatcher"].pc = "research"
        /\ job["dispatcher"].sid = Some(id)
        /\ schedules[id].last_run # None
        /\ hist.occ = Some(now - 2)
        /\ Val(schedules[id].last_run) < now - 2

\* C19: with one dispatcher cycle at a time and as long as no store write of
\* an execution has failed, the outbox never holds two messages of the same
\* schedule enqueued for the same occurrence of its recurrence, over any
\* number of cycles.
C19_OnePerOccurrence ==
    ~hist.wfail =>
        \A a, b \in DOMAIN hist.msgOcc :
            (a # b /\ origin[a] = origin[b]) => hist.msgOcc[a] # hist.msgOcc[b]

\* C19 witness: without any failed write two cycles have enqueued two
\* messages of one schedule, for two successive occurrences
C19_Witness ==
    \E a, b \in DOMAIN hist.msgOcc :
        /\ ~hist.wfail
        /\ origin[a] = origin[b]
        /\ hist.msgOcc[a] < hist.msgOcc[b]
        /\ outbox[a].created_at < outbox[b].created_at

(***************************************************************************)
(* The retries of the engine call (SpecDispatch)                           *)
(***************************************************************************)
\* C20: one call of deep_research makes at most 3 attempts, stops at the first
\* attempt that succeeds, and raises after the third failed attempt; that
\* raise is one execution failure for execute_research_job: it enters the
\* except clause, from which the execution returns once, is counted once,
\* enqueues nothing and leaves last_run as it was.
C20_BoundedRetries ==
    [][/\ (job["dispatcher"].pc = "research" /\ job'["dispatcher"].pc # "research") =>
            LET r   == Val(hist'.research)
                oks == {i \in 1..3 : r.outcomes[i] = "ok"}
            IN  /\ r.attempts \in 1..3
                /\ IF oks # {}
                   THEN /\ r.status = "ok"
                        /\ r.attempts \in oks
                        /\ \A k \in 1..(r.attempts - 1) : r.outcomes[k] = "fail"
                        /\ job'["dispatcher"].pc = "enqueue"
                   ELSE /\ r.status = "raise"
                        /\ r.attempts = 3
                        /\ job'["dispatcher"].pc = "except"
                /\ schedules' = schedules /\ outbox' = outbox
       /\ (job["dispatcher"].pc = "except" /\ job' # job) =>
            /\ job'["dispatcher"] = IdleJob
            /\ disp'.count = disp.count + 1
            /\ schedules' = schedules /\ outbox' = outbox]_vars

\* C20 witness: an execution is in its except clause after three failed
\* attempts of one deep_research call, with nothing enqueued or committed
C20_Witness ==
    /\ job["dispatcher"].pc = "except"
    /\ hist.research # None
    /\ Val(hist.research).attempts = 3
    /\ Val(hist.research).status = "raise"
    /\ outbox = <<>>
    /\ schedules[Val(job["dispatcher"].sid)].last_run = None

(***************************************************************************)
(* C21: a malformed recurrence expression fails closed.  save_schedule     *)
(* creates no record from an expression that cannot be parsed, so every    *)
(* stored schedule has a parsable expression; and the evaluation of a      *)
(* document whose expression cannot be parsed answers "not due" in both    *)
(* implementations instead of raising, whatever its last_run and the       *)
(* instant, so the dispatcher never hands such a schedule to the job.      *)
(***************************************************************************)
C21_MalformedFailsClosed ==
    /\ \A id \in DOMAIN schedules : CronOk(schedules[id].cron_schedule)
    /\ (probe.evaluated /\ ~CronOk(probe.schedule.cron_schedule))
          => (~probe.due /\ ~probe.due_fc)

\* a never-run document with an unparsable expression was evaluated and
\* found not due, while a well-formed schedule was stored
C21_Witness ==
    /\ probe.evaluated
    /\ probe.schedule.cron_schedule = CronBad
    /\ probe.schedule.last_run = None
    /\ ~probe.due
    /\ schedules # <<>>

C22_JobFrame ==
    [][\A e \in Executors :
         JobMoves(e) =>
            IF job[e].sid = None
            THEN schedules' = schedules /\ outbox' = outbox
            ELSE LET id == Val(job[e].sid)
                 IN  /\ DOMAIN schedules' = DOMAIN schedules
                     /\ \A o \in DOMAIN schedules \ {id} :
                          schedules'[o] = schedules[o]
                     /\ schedules'[id] =
                          [schedules[id] EXCEPT !.last_run = schedules'[id].last_run]
                     /\ \A m \in DOMAIN outbox :
                          m \in DOMAIN outbox' /\ outbox'[m] = outbox[m]
                     /\ \A m \in DOMAIN outbox' \ DOMAIN outbox :
                          /\ origin'[m] = id
                          /\ outbox'[m] = NewOutboxDoc(schedules[id].workspace_id,
                                             schedules[id].channel_id, job[e].msg, now)]_vars

\* the dispatcher and a forced execution are each about to write last_run, for
\* different schedules, after each appended its message
C22_Witness ==
    /\ job["dispatcher"].pc = "commit" /\ job["dispatcher"].sid = Some(1)
    /\ job["force"].pc = "commit" /\ job["force"].sid = Some(2)
    /\ Cardinality(DOMAIN outbox) = 2
    /\ schedules[1].last_run = None /\ schedules[2].last_run = None

(***************************************************************************)
(* Delivery as a running thread (SpecDeliveryLive)                         *)
(***************************************************************************)
\* the post budget of the model is used up: no further post can be modelled
PostsExhausted == Len(slackLog) = MaxPosts

\* a cycle's read of the undelivered messages succeeds
FetchSucceeds ==
    DeliverFetch /\ worker'.fetched = get_undelivered_messages(TRUE)

\* the post of message m and the mark-delivered write after it both succeed
DeliverySucceeds(m) ==
    /\ DeliverNext
    /\ m \in DOMAIN outbox /\ ~outbox[m].delivered
    /\ slackLog' = Append(slackLog, m)
    /\ outbox'[m].delivered

\* every message in the outbox is eventually marked delivered (or the post
\* budget runs out), and every cycle ends
EventuallyDelivered ==
    /\ \A m \in MsgIds :
         (m \in DOMAIN outbox)
            ~> ((m \in DOMAIN outbox /\ outbox[m].delivered) \/ PostsExhausted)
    /\ (worker.pc = "loop") ~> (worker.pc = "idle" \/ PostsExhausted)

\* C23 as stated: if the worker keeps cycling, and the post and the mark of a
\* message succeed eventually whenever they keep being attempted, then every
\* message appended to the outbox is eventually marked delivered and no cycle
\* stops the loop.
C23_DeliveredIfPostAndMarkSucceed ==
    (\A m \in MsgIds : SF_vars(DeliverySucceeds(m))) => EventuallyDelivered

\* C23 amended: the same, provided also that the worker's read of the
\* undelivered messages eventually succeeds whenever it keeps being attempted
C23_DeliveredIfFetchPostAndMarkSucceed ==
    (SF_vars(FetchSucceeds) /\ \A m \in MsgIds : SF_vars(DeliverySucceeds(m)))
        => EventuallyDelivered

\* a message whose post had failed in an earlier cycle is marked delivered
C23_Witness ==
    \E m \in DOMAIN outbox : m \in postFailed /\ outbox[m].delivered

(***************************************************************************)
(* Concurrent processes (SpecConcurrent)                                   *)
(***************************************************************************)
\* the documents of a collection that a step changes
Changed(before, after) ==
    {id \in DOMAIN before : id \notin DOMAIN after \/ after[id] # before[id]}

\* C25: the writes of update_last_run, deactivate_schedule and
\* mark_message_delivered are single-field writes of single documents, taken
\* one at a time by the store.  With the user, the dispatcher, a forced
\* execution and the delivery worker interleaved in every way, each step
\* changes at most one stored document, and in it one field: last_run or
\* active (to false) of a schedule, or delivered (to true) of a message.  So
\* every state of the store is the result of the writes applied in the order
\* in which they were taken, and a deactivation is never undone or
\* overwritten by the last_run write of a job that read the schedule before.
C25_SingleFieldWrites ==
    [][ /\ Cardinality(Changed(schedules, schedules')) +
           Cardinality(Changed(outbox, outbox')) <= 1
        /\ \A id \in DOMAIN schedules :
             /\ id \in DOMAIN schedules'
             /\ \/ schedules'[id] = schedules[id]
                \/ schedules'[id] =
                     [schedules[id] EXCEPT !.last_run = schedules'[id].last_run]
                \/ schedules'[id] = [schedules[id] EXCEPT !.active = FALSE]
             /\ ~schedules[id].active => ~schedules'[id].active
        /\ \A m \in DOMAIN outbox :
             /\ m \in DOMAIN outbox'
             /\ \/ outbox'[m] = outbox[m]
                \/ outbox'[m] = [outbox[m] EXCEPT !.delivered = TRUE] ]_vars

\* the schedule was deactivated after the dispatcher listed it, while the
\* dispatcher's execution and a forced one are both about to write last_run
\* and the worker has marked a message delivered
C25_Witness ==
    /\ job["dispatcher"].pc = "commit"
    /\ job["force"].pc = "commit"
    /\ ~schedules[1].active
    /\ \E m \in DOMAIN outbox : outbox[m].delivered

\* a step of the dispatcher loop: of its cycle or of the job it runs
DispatcherMoves == disp' # disp \/ JobMoves("dispatcher")

\* a step of the delivery loop
WorkerMoves == worker' # worker

\* C28: the dispatcher loop and the delivery loop interact only through the
\* store.  In every interleaving, a step of the dispatcher changes no
\* message's delivered flag, posts nothing and leaves the worker's own state
\* alone; a step of the worker changes no schedule record, appends nothing to
\* the outbox and leaves the dispatcher's own state alone.
C28_LoopsShareOnlyStore ==
    [][ /\ DispatcherMoves =>
             /\ \A m \in DOMAIN outbox :
                  m \in DOMAIN outbox' /\ outbox'[m].delivered = outbox[m].delivered
             /\ worker' = worker
             /\ slackLog' = slackLog
        /\ WorkerMoves =>
             /\ schedules' = schedules
             /\ DOMAIN outbox' = DOMAIN outbox
             /\ disp' = disp
             /\ job' = job ]_vars

\* both loops are in the middle of a cycle: the dispatcher's execution is about
\* to write last_run after it appended a message, and the worker, which fetched
\* an earlier message, has posted and marked it
C28_Witness ==
    /\ job["dispatcher"].pc = "commit" /\ job["dispatcher"].appended
    /\ worker.pc = "loop" /\ worker.i > 1
    /\ \E m \in DOMAIN outbox : outbox[m].delivered
    /\ \E m \in DOMAIN outbox : ~outbox[m].delivered

(***************************************************************************)
(* C26: the outbox is append-only.  No step removes a message, and no step *)
(* changes the workspace id, channel id, body or creation time of a        *)
(* message that is in the outbox; an existing message either stays as it   *)
(* is or has its delivered flag set to true.                               *)
(***************************************************************************)
C26_OutboxAppendOnly ==
    [][\A m \in DOMAIN outbox :
         /\ m \in DOMAIN outbox'
         /\ outbox'[m].workspace_id = outbox[m].workspace_id
         /\ outbox'[m].channel_id = outbox[m].channel_id
         /\ outbox'[m].message = outbox[m].message
         /\ outbox'[m].created_at = outbox[m].created_at
         /\ \/ outbox'[m] = outbox[m]
            \/ outbox'[m] = [outbox[m] EXCEPT !.delivered = TRUE]]_vars

\* a message was marked delivered at a later time than it was enqueued, and
\* another message was appended after it
C26_Witness ==
    \E m, n \in DOMAIN outbox :
        /\ outbox[m].delivered
        /\ outbox[m].created_at < outbox[n].created_at
        /\ ~outbox[n].delivered

(***************************************************************************)
(* Prompt validation (SpecPrompt)                                          *)
(***************************************************************************)
\* the length of a text without its leading and trailing whitespace
TrimmedLen(p) ==
    LET inked == {i \in 1..Len(p) : p[i] \notin Whitespace}
    IN  IF inked = {} THEN 0 ELSE Max(inked) - Min(inked) + 1

\* the disallowed terms, as the specification lists them
DisallowedTerms ==
    { <<"h","a","c","k">>,
      <<"i","l","l","e","g","a","l">>,
      <<"h","a","r","m","f","u","l">> }

\* term occurs in p at some position, letter for letter when case is ignored
HasTerm(p, term) ==
    \E i \in 1..(Len(p) - Len(term) + 1) :
        \A j \in 1..Len(term) : LowerOf(p[i + j - 1]) = term[j]

\* C27: validate_prompt accepts a prompt if and only if the prompt is
\* non-empty, its length after trimming whitespace is at least 10, and none of
\* the disallowed terms occurs in it as a substring, ignoring case.
C27_ValidatePromptIff ==
    probe.validated =>
        (probe.valid <=>
            /\ probe.prompt # <<>>
            /\ TrimmedLen(probe.prompt) >= 10
            /\ \A term \in DisallowedTerms : ~HasTerm(probe.prompt, term))

\* a padded prompt that is long enough was rejected for a disallowed term that
\* it spells in mixed case
C27_Witness ==
    /\ probe.validated
    /\ ~probe.valid
    /\ Len(probe.prompt) > TrimmedLen(probe.prompt)
    /\ TrimmedLen(probe.prompt) >= 10
    /\ \E term \in DisallowedTerms :
         HasTerm(probe.prompt, term) /\ ~Contains(probe.prompt, term)

(***************************************************************************)
(* New schedules (SpecDispatch)                                            *)
(***************************************************************************)
\* in both forms of C29: save_schedule creates a schedule with last_run = null
\* and active = true
C29_CreatedNeverRun ==
    \A id \in DOMAIN schedules' \ DOMAIN schedules :
        schedules'[id].last_run = None /\ schedules'[id].active

\* C29 as stated: a schedule is created never-run and active, and is therefore
\* executed in the first dispatcher cycle after its creation, whatever the
\* instant: every cycle that starts while the schedule is active and never
\* run lists it, and hands it to execute_research_job when its turn comes.
C29_ExecutedInFirstCycle ==
    [][/\ C29_CreatedNeverRun
       /\ Lists =>
            \A id \in DOMAIN schedules :
                (schedules[id].last_run = None /\ schedules[id].active)
                    => id \in ListedIds(disp'.list)
       /\ \A id \in DOMAIN schedules :
            (Evaluates(id) /\ Listed(Head(disp.list)).last_run = None)
                => Executes(id)]_vars

\* C29 as amended: the same for the first cycle whose listing of the active
\* schedules succeeds, and for a schedule whose timezone name is known; a
\* schedule with an unknown timezone name is never found due.
C29_ExecutedInFirstListedCycle ==
    [][/\ C29_CreatedNeverRun
       /\ Lists =>
            \/ disp'.list = <<>>
            \/ \A id \in DOMAIN schedules :
                  (schedules[id].last_run = None /\ schedules[id].active)
                      => id \in ListedIds(disp'.list)
       /\ \A id \in DOMAIN schedules :
            (/\ Evaluates(id)
             /\ Listed(Head(disp.list)).last_run = None
             /\ Listed(Head(disp.list)).timezone \in KnownTimezones)
                => Executes(id)]_vars

\* a schedule created at the current instant, at which none of its occurrences
\* falls, is being executed by the dispatcher before the clock has moved
C29_Witness ==
    /\ now = StartTime
    /\ ~Occurs(CronDaily, "UTC", StartTime)
    /\ job["dispatcher"].pc = "research"
    /\ schedules[Val(job["dispatcher"].sid)].last_run = None
    /\ schedules[Val(job["dispatcher"].sid)].timezone = "UTC"

(***************************************************************************)
(* Forced executions (SpecForce)                                           *)
(***************************************************************************)
\* force_execute_schedule returns from get_schedule_by_id in this step
ForceCalled ==
    /\ "forced" \in DOMAIN probe'
    /\ job["force"].pc = "idle"
    /\ probe' # probe \/ JobMoves("force")

\* in both forms of C30: a call enters execute_research_job only for a record
\* that exists, on the stored schedule and whether or not it is due or active;
\* a call that does not enter it, as every call with an id that no record
\* has, starts nothing; and the call itself writes nothing to the store
C30_ForceFrame ==
    ForceCalled =>
        /\ probe'.ran =>
             /\ probe'.forced \in DOMAIN schedules
             /\ job'["force"] = StartJob(probe'.forced)
        /\ ~probe'.ran => job' = job
        /\ probe'.forced \notin DOMAIN schedules => ~probe'.ran
        /\ schedules' = schedules
        /\ outbox' = outbox

\* C30 as stated: force_execute_schedule(id) runs execute_research_job on the
\* stored schedule exactly when a record with that id exists, due or not,
\* active or not; with no such record it changes no schedule and no message.
C30_RunsIffRecordExists ==
    [][/\ C30_ForceFrame
       /\ ForceCalled =>
            (probe'.ran <=> probe'.forced \in DOMAIN schedules)]_vars

\* C30 as amended: exactly when the read of the record succeeds and finds it; a
\* failed read is taken for "not found" and nothing is executed.
C30_RunsIffRecordRead ==
    [][/\ C30_ForceFrame
       /\ ForceCalled =>
            (probe'.ran <=>
                (probe'.read_ok /\ probe'.forced \in DOMAIN schedules))]_vars

\* a forced execution is at the engine call for a schedule that is inactive
\* and not due
C30_Witness ==
    /\ "forced" \in DOMAIN probe /\ probe.ran
    /\ job["force"].pc = "research"
    /\ ~schedules[probe.forced].active
    /\ schedules[probe.forced].last_run # None
    /\ ~is_schedule_due(schedules[probe.forced], now)

(***************************************************************************)
(* C31: the two implementations of is_schedule_due agree.  For every       *)
(* schedule document and every instant, the rule of deep_slack/main.py and *)
(* the rule of firebase_client.py give the same answer, for never-run      *)
(* documents and for documents whose evaluation raises (an unknown         *)
(* timezone name, an unparsable expression) as well.                       *)
(***************************************************************************)
C31_ImplementationsAgree ==
    probe.evaluated => (probe.due = probe.due_fc)

\* a never-run document whose evaluation raises was evaluated, and both
\* implementations answered "not due"
C31_Witness ==
    /\ probe.evaluated
    /\ probe.schedule.last_run = None
    /\ DueRaises(probe.schedule)
    /\ ~probe.due
    /\ ~probe.due_fc

(***************************************************************************)
(* C32: the dispatcher never invokes execute_research_job on a schedule    *)
(* whose active flag in the store is false at the moment of the            *)
(* invocation, also when the schedule was deactivated after the cycle      *)
(* listed the active schedules and before its turn in the loop.            *)
(***************************************************************************)
C32_NeverExecutesInactive ==
    [][\A id \in DOMAIN schedules : Executes(id) => schedules[id].active]_vars

(***************************************************************************)
(* C33: the last_run that a successful execution writes is the instant of  *)
(* its commit: the clock reading the job takes when its enqueue has        *)
(* returned and it issues the last_run write, not the occurrence the       *)
(* schedule was found due for and not the instant the job started.  Every  *)
(* execution is for an occurrence later than the last_run it was evaluated *)
(* with, so an occurrence that falls between the due evaluation and the    *)
(* commit of a job is covered by that last_run and gets no execution of    *)
(* its own.                                                                *)
(***************************************************************************)
C33_LastRunIsCommitInstant ==
    [][\A id \in DOMAIN schedules :
         /\ (/\ job["dispatcher"].pc = "enqueue"
             /\ job["dispatcher"].sid = Some(id)
             /\ job'["dispatcher"].pc = "commit")
               => job'["dispatcher"].ts = Some(now)
         /\ CommitOk(id) =>
               /\ schedules'[id].last_run = job["dispatcher"].ts
               /\ Val(job["dispatcher"].ts) > Val(hist.occ)
         /\ (Executes(id) /\ hist'.occ # None) =>
               \/ Listed(Head(disp.list)).last_run = None
               \/ Val(Listed(Head(disp.list)).last_run) < Val(hist'.occ)]_vars

\* a schedule was executed once, for occurrence p; a later occurrence P fell at
\* or after the due evaluation and not after the commit; last_run, being the
\* instant of the commit, covers P, and the clock has moved on
C33_Witness ==
    \E m \in DOMAIN hist.msgOcc :
        LET id == origin[m]
            p  == hist.msgOcc[m]
        IN  /\ schedules[id].last_run # None
            /\ \E P \in (p + 1)..Val(schedules[id].last_run) :
                 Occurs(schedules[id].cron_schedule, schedules[id].timezone, P)
            /\ now > Val(schedules[id].last_run)
            /\ job["dispatcher"].pc = "idle"
            /\ Cardinality({n \in DOMAIN origin : origin[n] = id}) = 1

(***************************************************************************)
(* C34: the active flag only ever changes from true to false.  A schedule  *)
(* is created active; no step sets the flag of a schedule back to true;    *)
(* and a step that changes the flag of a schedule (deactivate_schedule)    *)
(* changes no other field of it and no other schedule.                     *)
(***************************************************************************)
C34_ActiveOnlyFalls ==
    [][\A id \in DOMAIN schedules' :
         IF id \notin DOMAIN schedules
         THEN schedules'[id].active
         ELSE /\ ~schedules[id].active => ~schedules'[id].active
              /\ schedules'[id].active # schedules[id].active =>
                    /\ schedules'[id] = [schedules[id] EXCEPT !.active = FALSE]
                    /\ \A o \in DOMAIN schedules \ {id} :
                         schedules'[o] = schedules[o]]_vars

\* a schedule that has run was deactivated and kept its last_run, beside
\* another schedule that is still active, and the dispatcher has run a job
\* since for the latter
C34_Witness ==
    \E id, o \in DOMAIN schedules :
        /\ ~schedules[id].active
        /\ schedules[id].last_run # None
        /\ schedules[o].active
        /\ schedules[o].last_run # None
        /\ Val(schedules[o].last_run) > Val(schedules[id].last_run)

(***************************************************************************)
(* C35: a failed listing is an empty list.  get_active_schedules returns   *)
(* the empty list when its query fails; a cycle that starts with the empty *)
(* list although active schedules are stored changes no schedule and no    *)
(* message and starts no job, and when it ends it returns the count 0, as  *)
(* a cycle that found nothing to do.                                       *)
(***************************************************************************)
C35_FailedListingIsEmpty ==
    [][/\ get_active_schedules(FALSE) = <<>>
       /\ (Lists /\ disp'.list = <<>>) =>
            /\ disp'.count = 0
            /\ schedules' = schedules /\ outbox' = outbox /\ job' = job
       /\ (/\ disp.pc = "loop" /\ disp.list = <<>> /\ hist.handed = 0
           /\ disp' # disp) =>
            /\ disp' = [pc |-> "idle", list |-> <<>>, count |-> 0]
            /\ schedules' = schedules /\ outbox' = outbox /\ job' = job]_vars

\* a cycle is running on an empty list and has handed nothing over, although a
\* schedule that was there before the cycle began (an earlier execution of it
\* failed at the engine) is active and has never run: its listing failed
C35_Witness ==
    /\ disp.pc = "loop"
    /\ disp.list = <<>>
    /\ hist.handed = 0
    /\ job["dispatcher"].pc = "idle"
    /\ \E id \in Owed("engine") :
         schedules[id].active /\ schedules[id].last_run = None

(***************************************************************************)
(* The setup conversation (SpecSetup)                                      *)
(***************************************************************************)
TextIsConfirm(text) == Lower(text) = <<"c","o","n","f","i","r","m">>
TextIsCancel(text)  == Lower(text) = <<"c","a","n","c","e","l">>

\* the step just taken is handle_message_events on a message of user u
MessageOf(u) ==
    /\ probe'.handler = "handle_message_events"
    /\ probe'.user = u

\* the step just taken is a handler that starts a session for user u
StartOf(u) ==
    /\ probe'.handler \in {"handle_greeting", "handle_setup_command"}
    /\ probe'.user = u

\* C36: a schedule is stored by the conversation only by a "confirm" message
\* of a user whose session is in "confirming", and the stored document
\* carries that session's prompt and its expression, which validates; a
\* session enters "waiting_for_schedule" only from "waiting_for_prompt", by
\* storing the message as its prompt and no expression, and enters
\* "confirming" only from "waiting_for_schedule", keeping its prompt and
\* storing what parse_friendly_schedule made of the message, which
\* validates; a message that parse_friendly_schedule rejects leaves a
\* session in "waiting_for_schedule" as it was, with no expression
C36_SavedOnlyAfterAllSteps ==
    [][ /\ schedules' # schedules =>
             \E u \in DOMAIN user_sessions :
                LET s == user_sessions[u]
                IN  /\ MessageOf(u)
                    /\ TextIsConfirm(probe'.text)
                    /\ s.step = "confirming"
                    /\ s.prompt # None
                    /\ s.cron_schedule # None
                    /\ validate_cron_schedule(Val(s.cron_schedule))
                    /\ \E id \in SetupIds \ DOMAIN schedules :
                          schedules' = schedules @@
                             (id :> NewScheduleDoc(s.workspace_id, u,
                                      s.channel_id, Val(s.prompt),
                                      Val(s.cron_schedule), "UTC"))
        /\ \A u \in DOMAIN user_sessions' :
             LET t   == user_sessions'[u]
                 was == IF u \in DOMAIN user_sessions
                        THEN user_sessions[u].step ELSE "none"
             IN  /\ t.step = "waiting_for_prompt" =>
                       t.prompt = None /\ t.cron_schedule = None
                 /\ t.step = "waiting_for_schedule" =>
                       /\ was \in {"waiting_for_prompt", "waiting_for_schedule"}
                       /\ t.prompt # None
                       /\ t.cron_schedule = None
                       /\ was = "waiting_for_prompt" =>
                             MessageOf(u) /\ t.prompt = Some(probe'.text)
                 /\ t.step = "confirming" =>
                       /\ was \in {"waiting_for_schedule", "confirming"}
                       /\ t.prompt = user_sessions[u].prompt
                       /\ t.prompt # None
                       /\ t.cron_schedule # None
                       /\ validate_cron_schedule(Val(t.cron_schedule))
                       /\ was = "waiting_for_schedule" =>
                             /\ MessageOf(u)
                             /\ t.cron_schedule =
                                   parse_friendly_schedule(probe'.text)
                       /\ was = "confirming" =>
                             t.cron_schedule = user_sessions[u].cron_schedule
        /\ \A u \in DOMAIN user_sessions :
             ( /\ user_sessions[u].step = "waiting_for_schedule"
               /\ MessageOf(u)
               /\ parse_friendly_schedule(probe'.text) = None )
             => /\ u \in DOMAIN user_sessions'
                /\ user_sessions'[u] = user_sessions[u]
                /\ user_sessions'[u].cron_schedule = None
      ]_vars

\* C36 witness: a "confirm" message has just stored the schedule "news,
\* daily at 1" of a user, whose session is over, while the other user's
\* session waits for a schedule
C36_Witness ==
    /\ "handler" \in DOMAIN probe
    /\ probe.handler = "handle_message_events"
    /\ TextIsConfirm(probe.text)
    /\ probe.user \notin DOMAIN user_sessions
    /\ \E id \in DOMAIN schedules :
          /\ schedules[id].user_id = probe.user
          /\ schedules[id].prompt = TextTopic
          /\ schedules[id].cron_schedule = CronDaily
    /\ \E u \in DOMAIN user_sessions :
          /\ user_sessions[u].step = "waiting_for_schedule"
          /\ user_sessions[u].prompt = Some(TextSoon)

\* C37: a user's session is removed exactly by the message that saved the
\* schedule or by a "cancel" message in the step "confirming"; a "confirm"
\* whose save fails leaves the session as it was, in "confirming"; a
\* session is stored under its own user id, and a new start puts a fresh
\* session in the place of the old one
C37_RemovedIffSavedOrCancelled ==
    [][ /\ \A u \in DOMAIN user_sessions :
             LET s          == user_sessions[u]
                 confirming == MessageOf(u) /\ s.step = "confirming"
                 saved      == /\ confirming
                               /\ TextIsConfirm(probe'.text)
                               /\ schedules' # schedules
                 failed     == /\ confirming
                               /\ TextIsConfirm(probe'.text)
                               /\ schedules' = schedules
                 cancelled  == confirming /\ TextIsCancel(probe'.text)
             IN  /\ u \notin DOMAIN user_sessions' <=> (saved \/ cancelled)
                 /\ failed => /\ u \in DOMAIN user_sessions'
                              /\ user_sessions'[u] = s
                              /\ s.prompt # None /\ s.cron_schedule # None
        /\ \A u \in DOMAIN user_sessions' :
             /\ user_sessions'[u].user_id = u
             /\ StartOf(u) /\ user_sessions' # user_sessions =>
                   user_sessions'[u] =
                      SetupSession(u, user_sessions'[u].channel_id,
                                   user_sessions'[u].workspace_id)
      ]_vars

=============================================================================
